---- MODULE Spec2Model ----
(***************************************************************************)
(* Scheduled ingestion pipeline of power-grid-balance:                     *)
(*   - REEApiService.fetchElectricBalance  (remote fetch with retries)     *)
(*   - DatabaseService.storeREEData / cleanupOldData (keyed upserts,       *)
(*     retention cleanup with cascading deletes)                           *)
(*   - SchedulerService (start / stop / getStatus / manualFetch and the    *)
(*     four job bodies)                                                    *)
(* The specifications share the variables: SpecFetch, SpecSched, the      *)
(* SpecStore family and SpecPurge; each leaves the other components'      *)
(* variables unchanged.                                                    *)
(***************************************************************************)
EXTENDS Integers, Sequences, FiniteSets, TLC

VARIABLES
    \* ---- REEApiService.fetchElectricBalance (one call in progress) ----
    fPc,        \* "idle" | "calling" | "waiting" | "returned" | "thrown"
    fReq,       \* the request: [start, end, timeTrunc]
    attempt,    \* the loop variable of the retry loop
    fCalls,     \* transport outcomes of this call, one per betterFetch call
    fDelays,    \* the delays (ms) waited so far by this call
    fResult,    \* the payload returned or the error thrown
    \* ---- DatabaseService (the stored rows) ----
    balances,   \* power_grid_balances rows
    categories, \* energy_categories rows
    sources,    \* energy_sources rows
    values,     \* energy_values rows
    now,        \* the clock (new Date()), in ticks
    last,       \* the last storage call: its input, outcome and what it wrote
    \* ---- SchedulerService ----
    isRunning,  \* SchedulerService.isRunning
    jobs,       \* SchedulerService.jobs (the registered tasks, in order)
    cronTasks,  \* the tasks node-cron holds started
    jobGen,     \* how many times start() has built its four tasks
    runs,       \* job bodies: one record per slot, in progress or ended
    lastCall,   \* the last step of the scheduler: "start", "stop", "manualFetch",
                \* "cron" (a task fired) or "run" (a job body went on)
    \* ---- powerGridResolvers.Query.electricBalanceByDateRange ----
    query,      \* the last query: its arguments, the error thrown, the reads made
    \* ---- ManualDataFetchControls ----
    loadingType, \* the state of useState: NULL or the type being fetched
    shown,      \* the loadingType of the render the page shows
    inFlight,   \* the types of the fetchData calls that have not ended
    toasts,     \* the toasts shown so far
    clicks,     \* how many clicks the buttons have taken
    \* ---- storeREEData runs in progress together ----
    txs,        \* one run per caller: its payload, position and pending upserts
    written,    \* per table and natural key, what the last completed upsert wrote
    \* ---- the runs that wrote under the balances stored ----
    upserted    \* <<balance key, table, natural key>>: a run of a balance still
                \* stored upserted the row of that key

fetchVars == <<fPc, fReq, attempt, fCalls, fDelays, fResult>>
storeVars == <<balances, categories, sources, values, now, last>>
schedVars == <<isRunning, jobs, cronTasks, jobGen, runs, lastCall>>
queryVars == <<query>>
controlVars == <<loadingType, shown, inFlight, toasts, clicks>>
raceVars == <<txs, written>>
trackVars == <<upserted>>
vars == <<fetchVars, storeVars, schedVars, queryVars, controlVars, raceVars, trackVars>>

NULL == "null"

(***************************************************************************)
(* REEApiService                                                           *)
(***************************************************************************)
maxRetries == 3
retryDelay == 1000

TimeTruncs == {"hour", "day", "month", "year"}

\* The windows requested (start and end instants, in ticks).
Windows == {<<0, 1>>, <<2, 3>>}

\* What one betterFetch call can do: resolve with data, resolve with an error
\* object (with or without a message), resolve with neither, or reject.
Payload0 == "payload0"
Payload1 == "payload1"
TransportOutcomes ==
    {[kind |-> "data", message |-> Payload0],
     [kind |-> "data", message |-> Payload1],
     [kind |-> "error", message |-> "fail"],
     [kind |-> "error", message |-> NULL],
     [kind |-> "nodata", message |-> NULL],
     [kind |-> "reject", message |-> "timeout"]}

\* The Error the try block of one attempt ends with (NoError: data returned).
\* A message is a sequence of strings, the pieces of the template literal.
NoError == [name |-> "none", message |-> <<>>]

AttemptError(o) ==
    CASE o.kind = "data" -> NoError
      [] o.kind = "error" ->
            [name |-> "Error",
             message |-> <<"REE API request failed: ",
                           IF o.message = NULL THEN "Unknown error" ELSE o.message>>]
      [] o.kind = "nodata" ->
            [name |-> "Error", message |-> <<"No data received from REE API">>]
      [] OTHER ->
            [name |-> "Error", message |-> <<o.message>>]

\* The decimal digits of a small number, as the template literal prints it.
Digits(n) == IF n = 0 THEN "0" ELSE IF n = 1 THEN "1" ELSE IF n = 2 THEN "2"
             ELSE IF n = 3 THEN "3" ELSE IF n = 4 THEN "4" ELSE "5"

REEApiError(n, cause) ==
    [name |-> "REEApiError",
     message |-> <<"Failed to fetch data after ", Digits(n), " attempts: ">> \o cause.message,
     cause |-> cause]

\* `if (attempt === this.maxRetries) throw`; LastAttemptLate is the variant
\* that lets the loop run out instead.
LastAttemptLate(a) == a = maxRetries + 1
LastAttempt(a) == a = maxRetries

\* `await this.delay(this.retryDelay * attempt)`; RetryWaitFlat is the
\* variant that waits the base delay every time.
RetryWaitFlat(a) == retryDelay
RetryWait(a) == retryDelay * a

NoResult == [kind |-> "none", payload |-> NULL, error |-> NoError]

\* The try block reaches `return data`: neither `if (error) throw` nor
\* `if (!data) throw` fired. SucceedsUnlessError is the variant without the
\* second test.
SucceedsUnlessError(o) == o.kind \notin {"error", "reject"}
Succeeds(o) == o.kind = "data"

FetchInit ==
    /\ fPc = "idle"
    /\ fReq = [start |-> 0, end |-> 0, timeTrunc |-> "day"]
    /\ attempt = 0
    /\ fCalls = <<>>
    /\ fDelays = <<>>
    /\ fResult = NoResult

\* fetchElectricBalance(startDate, endDate, timeTrunc): the call starts.
fetchElectricBalance ==
    /\ fPc \in {"idle", "returned", "thrown"}
    /\ \E w \in Windows, t \in TimeTruncs :
          fReq' = [start |-> w[1], end |-> w[2], timeTrunc |-> t]
    /\ attempt' = 1
    /\ fCalls' = <<>>
    /\ fDelays' = <<>>
    /\ fResult' = NoResult
    /\ fPc' = "calling"

\* One iteration of the retry loop up to its await of the delay.
FetchAttempt ==
    /\ fPc = "calling"
    /\ attempt <= maxRetries
    /\ \E o \in TransportOutcomes :
          /\ fCalls' = Append(fCalls, o)
          /\ IF Succeeds(o)
                THEN /\ fPc' = "returned"
                     /\ fResult' = [kind |-> "payload", payload |-> o.message, error |-> NoError]
                     /\ UNCHANGED <<attempt, fDelays>>
                ELSE IF LastAttempt(attempt)
                THEN /\ fPc' = "thrown"
                     /\ fResult' = [kind |-> "error", payload |-> NULL,
                                     error |-> REEApiError(maxRetries, AttemptError(o))]
                     /\ UNCHANGED <<attempt, fDelays>>
                ELSE /\ fPc' = "waiting"
                     /\ fDelays' = Append(fDelays, RetryWait(attempt))
                     /\ UNCHANGED <<attempt, fResult>>
    /\ UNCHANGED fReq

\* The delay elapses: the loop's attempt++ and the next iteration, or, past
\* the loop, the final throw.
FetchDelayElapsed ==
    /\ fPc = "waiting"
    /\ attempt' = attempt + 1
    /\ IF attempt + 1 <= maxRetries
          THEN /\ fPc' = "calling"
               /\ UNCHANGED fResult
          ELSE /\ fPc' = "thrown"
               /\ fResult' = [kind |-> "error", payload |-> NULL,
                               error |-> [name |-> "REEApiError",
                                          message |-> <<"Unexpected error in fetchElectricBalance">>,
                                          cause |-> NoError]]
    /\ UNCHANGED <<fReq, fCalls, fDelays>>

NextFetch ==
    \/ fetchElectricBalance /\ UNCHANGED <<storeVars, schedVars, queryVars, controlVars, raceVars, trackVars>>
    \/ FetchAttempt /\ UNCHANGED <<storeVars, schedVars, queryVars, controlVars, raceVars, trackVars>>
    \/ FetchDelayElapsed /\ UNCHANGED <<storeVars, schedVars, queryVars, controlVars, raceVars, trackVars>>

(***************************************************************************)
(* SchedulerService                                                        *)
(***************************************************************************)
\* The number of start() calls that build tasks, and of job bodies that can
\* be in progress together.
MaxStarts == 2
MaxRuns == 1

\* The four tasks start() builds, in the order of this.jobs.
JobNames == <<"current", "previous", "historical", "cleanup">>
FetchTypes == {"current", "previous", "historical"}

\* fetchHistoricalData: for (let i = 2; i <= 8; i++)
HistoricalFirst == 2
HistoricalLast == 8

Range(f) == {f[i] : i \in DOMAIN f}

\* A free slot of runs, or one whose body has ended.
\* response: what the manualDataFetch resolver returned for the run.
\* fetchFailed: fetchDateData threw for the date the body is at;
\* storeCalled: storeREEData has been called for that date;
\* gen: the start() that built the task whose firing entered the body.
NoResponse == [success |-> FALSE, message |-> <<>>]
IdleRun == [pc |-> "idle", origin |-> NULL, job |-> NULL, i |-> 0,
            error |-> NULL, outcome |-> NULL, response |-> NoResponse,
            attempted |-> <<>>, fetchFailed |-> FALSE, storeCalled |-> FALSE,
            gen |-> 0]

SchedInit ==
    /\ isRunning = FALSE
    /\ jobs = <<>>
    /\ cronTasks = {}
    /\ jobGen = 0
    /\ runs = [s \in 1..MaxRuns |-> IdleRun]
    /\ lastCall = "none"

\* The same scheduler with room for two job bodies in progress together.
SchedInitOverlap ==
    /\ isRunning = FALSE
    /\ jobs = <<>>
    /\ cronTasks = {}
    /\ jobGen = 0
    /\ runs = <<IdleRun, IdleRun>>
    /\ lastCall = "none"

\* getStatus()
getStatus == [isRunning |-> isRunning, jobCount |-> Len(jobs)]

FreeSlots == {s \in DOMAIN runs : runs[s].pc \in {"idle", "done"}}

\* The days (counted back from today) a job body fetches first: today,
\* yesterday (subDays 1), the first day of the historical loop.
FirstDay(job) ==
    CASE job = "current" -> <<0>>
      [] job = "previous" -> <<1>>
      [] job = "historical" -> <<HistoricalFirst>>
      [] OTHER -> <<>>

\* A job body as it is entered: at its first await. attempted lists the days
\* fetchDateData has been called for.
NewRun(origin, job) ==
    [pc |-> IF job = "cleanup" THEN "purge" ELSE "fetch",
     origin |-> origin, job |-> job,
     i |-> IF job = "historical" THEN HistoricalFirst ELSE 0,
     error |-> NULL, outcome |-> NULL, response |-> NoResponse,
     attempted |-> FirstDay(job), fetchFailed |-> FALSE, storeCalled |-> FALSE,
     gen |-> 0]

\* start(): the tasks are built and started, isRunning is set, and
\* performInitialFetch() is called without being awaited: it runs to its
\* first await, inside fetchCurrentData.
\* `if (this.isRunning)` of start() and `if (!this.isRunning)` of stop().
\* AlreadyRunningNever is the variant of start() without the early return.
AlreadyRunningNever == FALSE
AlreadyRunning == isRunning
NotRunning == ~isRunning

start ==
    /\ lastCall' = "start"
    /\ IF AlreadyRunning
       THEN UNCHANGED <<isRunning, jobs, cronTasks, jobGen, runs>>
       ELSE /\ jobGen < MaxStarts
            /\ jobGen' = jobGen + 1
            /\ jobs' = [k \in 1..Len(JobNames) |-> [gen |-> jobGen + 1, name |-> JobNames[k]]]
            /\ cronTasks' = cronTasks \cup Range(jobs')
            /\ isRunning' = TRUE
            /\ \E s \in FreeSlots :
                  runs' = [runs EXCEPT ![s] = NewRun("initial", "current")]

\* stop(): `this.jobs = []`; jobsAfterStopKept is the variant that forgets it.
jobsAfterStopKept == jobs
jobsAfterStop == <<>>

\* stop() touches the tasks only: the job bodies in progress go on.
\* runsAfterStopCancelled is the variant that ends them.
runsAfterStopCancelled ==
    [s \in DOMAIN runs |-> IF runs[s].pc \in {"idle", "done"} THEN runs[s] ELSE IdleRun]
runsAfterStop == runs

stop ==
    /\ lastCall' = "stop"
    /\ IF NotRunning
       THEN UNCHANGED <<isRunning, jobs, cronTasks, jobGen, runs>>
       ELSE /\ cronTasks' = cronTasks \ Range(jobs)
            /\ jobs' = jobsAfterStop
            /\ isRunning' = FALSE
            /\ runs' = runsAfterStop
            /\ UNCHANGED jobGen

\* A started task fires: its callback enters the job body.
CronFire ==
    \E t \in cronTasks, s \in FreeSlots :
        /\ runs' = [runs EXCEPT ![s] = [NewRun("cron", t.name) EXCEPT !.gen = t.gen]]
        /\ lastCall' = "cron"
        /\ UNCHANGED <<isRunning, jobs, cronTasks, jobGen>>

\* manualFetch(type) goes to its switch without a test of isRunning.
\* ManualFetchAllowedRunning is the variant that serves a running scheduler
\* only.
ManualFetchAllowedRunning == isRunning
ManualFetchAllowed == TRUE

\* manualFetch(type) is called and enters the job body.
manualFetch ==
    \E type \in FetchTypes, s \in FreeSlots :
        /\ ManualFetchAllowed
        /\ runs' = [runs EXCEPT ![s] = NewRun("manual", type)]
        /\ lastCall' = "manualFetch"
        /\ UNCHANGED <<isRunning, jobs, cronTasks, jobGen>>

\* The catch block of fetchCurrentData / fetchPreviousData / fetchHistoricalData
\* (handleFetchError logs and returns) and of cleanupOldData (logs): how the
\* body ends once it has caught `err`. CatchRethrows is the variant that
\* throws the error on.
CatchRethrows(err) == "threw"
CatchInBody(err) == "returned"

\* How the caller of a body that ended with `outcome` ends: the task callback
\* awaits it and nothing more, manualFetch catches and rethrows,
\* performInitialFetch catches and logs.
CallerOutcome(origin, outcome) ==
    CASE origin = "manual" -> IF outcome = "threw" THEN "rejected" ELSE "resolved"
      [] origin = "initial" -> "resolved"
      [] OTHER -> IF outcome = "threw" THEN "escaped" ELSE "resolved"

\* The manualDataFetch resolver around `await schedulerService.manualFetch(type)`:
\* the response of its try branch when manualFetch resolves, of its catch
\* branch when it rejects with an error of message `err`.
ManualDataFetchResponse(type, outcome, err) ==
    IF outcome = "resolved"
       THEN [success |-> TRUE, message |-> <<"Successfully fetched ", type, " data">>]
       ELSE [success |-> FALSE, message |-> <<"Failed to fetch data: ", err>>]

\* The run of slot s after its job body has ended with `outcome`, having
\* seen `err` (NULL: none). performInitialFetch goes on to fetchPreviousData
\* after fetchCurrentData returns.
EndBody(r, err, outcome) ==
    IF r.origin = "initial" /\ r.job = "current" /\ outcome = "returned"
       THEN [NewRun("initial", "previous") EXCEPT !.error = err]
       ELSE [r EXCEPT !.pc = "done", !.error = err,
                      !.outcome = CallerOutcome(r.origin, outcome),
                      !.response =
                          IF r.origin = "manual"
                             THEN ManualDataFetchResponse(r.job,
                                      CallerOutcome(r.origin, outcome), err)
                             ELSE NoResponse]

\* The loop of fetchHistoricalData going on to its next date.
NextDate(r) ==
    [r EXCEPT !.pc = "fetch", !.i = r.i + 1, !.attempted = Append(@, r.i + 1),
              !.fetchFailed = FALSE, !.storeCalled = FALSE]

\* The inner try/catch of the loop of fetchHistoricalData: log and continue
\* with the next date. InnerCatchLeaves is the variant that leaves the loop.
InnerCatchLeaves(r) == FALSE
InnerCatchGoesOn(r) == r.i < HistoricalLast

\* The run after a step of its body failed with `err`.
AfterFailure(r, err) ==
    IF r.job = "historical"
       THEN IF InnerCatchGoesOn(r)
               THEN [NextDate(r) EXCEPT !.error = err]
               ELSE EndBody(r, err, "returned")
       ELSE EndBody(r, err, CatchInBody(err))

\* The run after fetchDateData threw: the throw leaves the try block before
\* storeREEData is called. AfterFetchFailedStores is the variant that goes
\* on to the store.
AfterFetchFailedStores(r) == [r EXCEPT !.pc = "store", !.error = "REEApiError"]
AfterFetchFailed(r) == AfterFailure(r, "REEApiError")

\* The run after the last step of one date succeeded.
AfterStored(r) ==
    IF r.job = "historical" /\ r.i < HistoricalLast
       THEN NextDate(r)
       ELSE EndBody(r, r.error, "returned")

\* `await reeApiService.fetchDateData(date)` returns or throws REEApiError.
RunFetch ==
    \E s \in DOMAIN runs :
        /\ runs[s].pc = "fetch"
        /\ \/ runs' = [runs EXCEPT ![s] = [runs[s] EXCEPT !.pc = "store"]]
           \/ runs' = [runs EXCEPT ![s] = AfterFetchFailed([runs[s] EXCEPT !.fetchFailed = TRUE])]
        /\ lastCall' = "run"
        /\ UNCHANGED <<isRunning, jobs, cronTasks, jobGen>>

\* `await databaseService.storeREEData(data, date)` returns or throws
\* DatabaseError.
RunStore ==
    \E s \in DOMAIN runs :
        /\ runs[s].pc = "store"
        /\ \/ runs' = [runs EXCEPT ![s] = AfterStored([runs[s] EXCEPT !.storeCalled = TRUE])]
           \/ runs' = [runs EXCEPT ![s] =
                          AfterFailure([runs[s] EXCEPT !.storeCalled = TRUE], "DatabaseError")]
        /\ lastCall' = "run"
        /\ UNCHANGED <<isRunning, jobs, cronTasks, jobGen>>

\* cleanupOldData: `await databaseService.cleanupOldData(daysToKeep)` returns
\* or throws DatabaseError.
RunCleanup ==
    \E s \in DOMAIN runs :
        /\ runs[s].pc = "purge"
        /\ \/ runs' = [runs EXCEPT ![s] = EndBody(runs[s], runs[s].error, "returned")]
           \/ runs' = [runs EXCEPT ![s] = AfterFailure(runs[s], "DatabaseError")]
        /\ lastCall' = "run"
        /\ UNCHANGED <<isRunning, jobs, cronTasks, jobGen>>

NextSched ==
    \/ start /\ UNCHANGED <<fetchVars, storeVars, queryVars, controlVars, raceVars, trackVars>>
    \/ stop /\ UNCHANGED <<fetchVars, storeVars, queryVars, controlVars, raceVars, trackVars>>
    \/ CronFire /\ UNCHANGED <<fetchVars, storeVars, queryVars, controlVars, raceVars, trackVars>>
    \/ manualFetch /\ UNCHANGED <<fetchVars, storeVars, queryVars, controlVars, raceVars, trackVars>>
    \/ RunFetch /\ UNCHANGED <<fetchVars, storeVars, queryVars, controlVars, raceVars, trackVars>>
    \/ RunStore /\ UNCHANGED <<fetchVars, storeVars, queryVars, controlVars, raceVars, trackVars>>
    \/ RunCleanup /\ UNCHANGED <<fetchVars, storeVars, queryVars, controlVars, raceVars, trackVars>>

(***************************************************************************)
(* DatabaseService: the stored rows and the keyed upserts                  *)
(***************************************************************************)
\* An optional number of a payload: None (undefined) or Some(n).
None == <<>>
Some(n) == <<n>>

\* Instants are ticks; a calendar day has TicksPerDay of them.
TicksPerDay == 2
\* date-fns startOfDay
startOfDay(t) == t - (t % TicksPerDay)

\* The four tables, as one record.
DB == [balances |-> balances, categories |-> categories,
       sources |-> sources, values |-> values]
EmptyDB == [balances |-> {}, categories |-> {}, sources |-> {}, values |-> {}]

\* @default(auto()) @db.ObjectId: an id no row of the collection holds. Ids are
\* opaque and only compared for equality, so the new row is named after the
\* key it is created under and the number of rows already holding that key.
\* A deleted row's id comes back only after every row referring to it is
\* gone.
FreshId(rows, key) ==
    LET ids == {r.id : r \in rows}
        n == CHOOSE i \in 0..Cardinality(rows) :
                 /\ <<key, i>> \notin ids
                 /\ \A j \in 0..(i - 1) : <<key, j>> \in ids
    IN  <<key, n>>

\* The update branch of an upsert rewrites the row it found in place.
\* ReplacedDropped is the variant that loses the row.
ReplacedDropped(rows, old, new) == rows \ {old}
Replaced(rows, old, new) == (rows \ {old}) \cup {new}

\* prisma.powerGridBalance.upsert, where: balanceId_balanceDate.
\* BalanceKeyIdOnly is the variant whose key leaves the date out.
BalanceKeyIdOnly(r, p, date) == r.balanceId = p.id
BalanceKey(r, p, date) == r.balanceId = p.id /\ r.balanceDate = startOfDay(date)

\* The update and the create branch of the balance upsert.
BalanceUpdate(old, p) == [old EXCEPT !.title = p.title]
NewBalance(db, p, date, t) ==
    [id |-> FreshId(db.balances, <<p.id, startOfDay(date)>>), balanceId |-> p.id,
     balanceDate |-> startOfDay(date), title |-> p.title, createdAt |-> t]

UpsertBalance(db, p, date, t) ==
    LET hit == {r \in db.balances : BalanceKey(r, p, date)}
    IN  IF hit # {}
           THEN LET old == CHOOSE r \in hit : TRUE
                    new == BalanceUpdate(old, p)
                IN  [db |-> [db EXCEPT !.balances = Replaced(@, old, new)], id |-> old.id]
           ELSE LET new == NewBalance(db, p, date, t)
                IN  [db |-> [db EXCEPT !.balances = @ \cup {new}], id |-> new.id]

\* prisma.energyCategory.upsert, where: categoryId. CategoryKeyPerBalance is
\* the variant that keys a category by its balance too.
CategoryKeyPerBalance(r, c, balanceId) == r.categoryId = c.id /\ r.balanceId = balanceId
CategoryKey(r, c, balanceId) == r.categoryId = c.id

\* The update branch of the category upsert. CategoryUpdateKeepsBalance is
\* the variant that leaves the category with its balance.
CategoryUpdateKeepsBalance(old, c, balanceId) ==
    [old EXCEPT !.type = c.type, !.title = c.title]
CategoryUpdate(old, c, balanceId) ==
    [old EXCEPT !.type = c.type, !.title = c.title, !.balanceId = balanceId]

\* The create branch of the category upsert.
NewCategory(db, c, balanceId) ==
    [id |-> FreshId(db.categories, c.id), categoryId |-> c.id, type |-> c.type,
     title |-> c.title, balanceId |-> balanceId]

UpsertCategory(db, c, balanceId) ==
    LET hit == {r \in db.categories : CategoryKey(r, c, balanceId)}
    IN  IF hit # {}
           THEN LET old == CHOOSE r \in hit : TRUE
                    new == CategoryUpdate(old, c, balanceId)
                IN  [db |-> [db EXCEPT !.categories = Replaced(@, old, new)], id |-> old.id]
           ELSE LET new == NewCategory(db, c, balanceId)
                IN  [db |-> [db EXCEPT !.categories = @ \cup {new}], id |-> new.id]

\* `sourceData.attributes.total ?? 0`. OrZeroAlways is the variant that
\* drops the total.
OrZeroAlways(x) == 0
OrZero(x) == IF x = None THEN 0 ELSE x[1]

\* prisma.energySource.upsert, where: sourceId; its update and create
\* branches (sourcePayload).
SourceKey(r, s) == r.sourceId = s.id
SourceUpdate(old, s, categoryId) ==
    [old EXCEPT !.groupId = s.groupId, !.title = s.title,
                !.total = OrZero(s.total), !.categoryId = categoryId]
NewSource(db, s, categoryId) ==
    [id |-> FreshId(db.sources, s.id), sourceId |-> s.id, groupId |-> s.groupId,
     title |-> s.title, total |-> OrZero(s.total), categoryId |-> categoryId]

UpsertSource(db, s, categoryId) ==
    LET hit == {r \in db.sources : SourceKey(r, s)}
    IN  IF hit # {}
           THEN LET old == CHOOSE r \in hit : TRUE
                    new == SourceUpdate(old, s, categoryId)
                IN  [db |-> [db EXCEPT !.sources = Replaced(@, old, new)], id |-> old.id]
           ELSE LET new == NewSource(db, s, categoryId)
                IN  [db |-> [db EXCEPT !.sources = @ \cup {new}], id |-> new.id]

\* prisma.energyValue.upsert, where: sourceId_datetime. ValueKeyNever is the
\* variant that never finds the row, so that every upsert creates one.
ValueKeyNever(r, v, sourceId) == FALSE
ValueKey(r, v, sourceId) == r.sourceId = sourceId /\ r.datetime = v.datetime

\* The update branch of the value upsert: valuePayload. ValueUpdateKeepsOld
\* is the variant that leaves the row as it is.
ValueUpdateKeepsOld(old, v) == old
ValueUpdate(old, v) == [old EXCEPT !.value = v.value[1], !.percentage = v.percentage[1]]

\* The create branch of the value upsert.
NewValue(db, v, sourceId) ==
    [id |-> FreshId(db.values, <<sourceId, v.datetime>>), sourceId |-> sourceId,
     datetime |-> v.datetime, value |-> v.value[1], percentage |-> v.percentage[1]]

UpsertValue(db, v, sourceId) ==
    LET hit == {r \in db.values : ValueKey(r, v, sourceId)}
    IN  IF hit # {}
           THEN LET old == CHOOSE r \in hit : TRUE
                    new == ValueUpdate(old, v)
                IN  [db EXCEPT !.values = Replaced(@, old, new)]
           ELSE LET new == NewValue(db, v, sourceId)
                IN  [db EXCEPT !.values = @ \cup {new}]

(***************************************************************************)
(* DatabaseService.storeREEData: the prisma calls one run issues           *)
(***************************************************************************)
CategoryTypes == {"Renovable", "No-Renovable", "Almacenamiento", "Demanda"}

\* _filterValidCategories: the predicate of included.filter.
\* IsValidCategoryAnyContent is the variant without the test of content.
IsValidCategoryAnyContent(item) ==
    /\ item.type # NULL
    /\ item.type \in CategoryTypes
    /\ item.id # NULL
    /\ item.title # NULL
    /\ item.lastUpdate # NULL
IsValidCategory(item) ==
    /\ item.type # NULL
    /\ item.type \in CategoryTypes
    /\ item.id # NULL
    /\ item.title # NULL
    /\ item.lastUpdate # NULL
    /\ item.hasContent

_filterValidCategories(included) == SelectSeq(included, IsValidCategory)

\* _upsertEnergyValues: the predicate of values.filter (`!== undefined`).
\* IsValidValueNonZero is the variant that tests the numbers for truth.
IsValidValueNonZero(v) ==
    /\ v.datetime # NULL
    /\ v.value # None /\ v.value # Some(0)
    /\ v.percentage # None /\ v.percentage # Some(0)
IsValidValue(v) ==
    /\ v.datetime # NULL
    /\ v.value # None
    /\ v.percentage # None

\* The if of the source loop of _upsertCategorySourcesAndValues.
\* SourceQualifiesAnyGroup is the variant without the group comparison.
SourceQualifiesAnyGroup(s, c) ==
    /\ s.groupId # NULL
    /\ s.id # NULL
    /\ s.type # NULL
    /\ s.title # NULL
    /\ s.lastUpdate # NULL
SourceQualifies(s, c) ==
    /\ s.groupId # NULL
    /\ s.groupId = c.id
    /\ s.id # NULL
    /\ s.type # NULL
    /\ s.title # NULL
    /\ s.lastUpdate # NULL

\* The operations a run issues after the balance upsert, in order. A "values"
\* operation is one _upsertEnergyValues call: its upserts are issued together
\* (Promise.all), none when no value is valid.
SourceOps(s, c) ==
    IF SourceQualifies(s, c)
       THEN <<[kind |-> "source", frag |-> s]>>
            \o (IF Len(s.values) > 0
                   THEN <<[kind |-> "values", frag |-> SelectSeq(s.values, IsValidValue)]>>
                   ELSE <<>>)
       ELSE <<>>

RECURSIVE ContentOps(_, _)
ContentOps(content, c) ==
    IF content = <<>> THEN <<>>
    ELSE SourceOps(Head(content), c) \o ContentOps(Tail(content), c)

\* _upsertCategorySourcesAndValues(categoryData, balanceId)
CategoryOps(c) ==
    IF c.id = NULL \/ c.type = NULL \/ c.title = NULL \/ c.lastUpdate = NULL
       THEN <<>>
       ELSE <<[kind |-> "category", frag |-> c]>> \o ContentOps(c.content, c)

RECURSIVE IncludedOps(_)
IncludedOps(cats) ==
    IF cats = <<>> THEN <<>>
    ELSE CategoryOps(Head(cats)) \o IncludedOps(Tail(cats))

\* storeREEData after its first check: the balance upsert, then the
\* categories that pass the filter, one after the other.
StoreOps(p) ==
    <<[kind |-> "balance", frag |-> p]>> \o IncludedOps(_filterValidCategories(p.included))

\* The number of prisma calls an operation issues.
OpCalls(op) == IF op.kind = "values" THEN Len(op.frag) ELSE 1

RECURSIVE TotalCalls(_)
TotalCalls(ops) == IF ops = <<>> THEN 0 ELSE OpCalls(Head(ops)) + TotalCalls(Tail(ops))

\* The errors of this layer.
PlainError(msg) == [name |-> "Error", message |-> msg, cause |-> NULL]
PrismaError == [name |-> "PrismaClientError", message |-> "storage failure", cause |-> NULL]
\* DatabaseError: the catch block of storeREEData wraps whatever was thrown.
DatabaseError(msg, cause) ==
    [name |-> "DatabaseError", message |-> msg, cause |-> cause.message]
NoStoreError == [name |-> "none", message |-> NULL, cause |-> NULL]

\* _upsertPowerGridBalance: its own check of the required fields.
\* BalanceDataMissingIdOrTitle is the variant without the last-update test.
BalanceDataMissingIdOrTitle(p) == p.id = NULL \/ p.title = NULL
BalanceDataMissing(p) == p.id = NULL \/ p.title = NULL \/ p.lastUpdate = NULL

\* A run of storeREEData between two prisma calls: the tables, the ids the
\* run holds (balanceRecord.id, category.id, upsertedSource.id), the calls
\* issued so far and the error thrown (NoStoreError: none).
RunState(db) == [db |-> db, bal |-> 0, cat |-> 0, src |-> 0, calls |-> 0,
                 err |-> NoStoreError]

\* The upserts of one Promise.all, in the order `order` (a permutation of
\* positions) completes them; those whose call number is in `fail` throw, the
\* others are applied all the same.
RECURSIVE BatchDB(_, _, _, _, _, _)
BatchDB(db, vals, order, src, base, fail) ==
    IF order = <<>> THEN db
    ELSE LET k == Head(order)
             db1 == IF k > Len(vals) \/ (base + k) \in fail THEN db
                    ELSE UpsertValue(db, vals[k], src)
         IN  BatchDB(db1, vals, Tail(order), src, base, fail)

\* One operation applied to a run: `fail` is the set of call numbers that
\* throw, t the clock.
ApplyOp(st, op, date, t, fail, order) ==
    CASE op.kind = "balance" ->
            IF BalanceDataMissing(op.frag)
               THEN [st EXCEPT !.err = PlainError("Invalid API response: missing required balance data")]
            ELSE IF (st.calls + 1) \in fail
               THEN [st EXCEPT !.calls = @ + 1, !.err = PrismaError]
            ELSE LET u == UpsertBalance(st.db, op.frag, date, t)
                 IN  [st EXCEPT !.db = u.db, !.bal = u.id, !.calls = @ + 1]
      [] op.kind = "category" ->
            IF (st.calls + 1) \in fail
               THEN [st EXCEPT !.calls = @ + 1, !.err = PrismaError]
            ELSE LET u == UpsertCategory(st.db, op.frag, st.bal)
                 IN  [st EXCEPT !.db = u.db, !.cat = u.id, !.calls = @ + 1]
      [] op.kind = "source" ->
            IF (st.calls + 1) \in fail
               THEN [st EXCEPT !.calls = @ + 1, !.err = PrismaError]
            ELSE LET u == UpsertSource(st.db, op.frag, st.cat)
                 IN  [st EXCEPT !.db = u.db, !.src = u.id, !.calls = @ + 1]
      [] OTHER ->
            LET n == Len(op.frag)
                failed == {k \in 1..n : (st.calls + k) \in fail}
            IN  [st EXCEPT !.db = BatchDB(st.db, op.frag, order, st.src, st.calls, fail),
                           !.calls = @ + n,
                           !.err = IF failed = {} THEN NoStoreError ELSE PrismaError]

\* The operations of a run applied one after the other, up to the first that
\* throws.
RECURSIVE RunOps(_, _, _, _, _, _)
RunOps(st, ops, date, t, fail, order) ==
    IF ops = <<>> \/ st.err # NoStoreError THEN st
    ELSE RunOps(ApplyOp(st, Head(ops), date, t, fail, order), Tail(ops), date, t, fail, order)

\* storeREEData's first check. PayloadInvalidIdOnly is the variant that
\* forgets the title.
PayloadInvalidIdOnly(p) == p.id = NULL
PayloadInvalid(p) == p.id = NULL \/ p.title = NULL

\* What a run that threw leaves in the tables: the upserts are separate
\* prisma calls outside any transaction, so what was written stays.
\* CommittedRolledBack is the variant that undoes the run.
CommittedRolledBack(db, st) == db
Committed(db, st) == st.db

\* storeREEData(apiResponse, balanceDate) as one call: the run's final state,
\* its error wrapped by the catch block.
StoreREEData(db, p, date, t, fail, order) ==
    IF PayloadInvalid(p)
       THEN [RunState(db) EXCEPT !.err =
                DatabaseError("Failed to store REE data in database",
                              PlainError("Invalid API response: missing required data fields"))]
       ELSE LET st == RunOps(RunState(db), StoreOps(p), date, t, fail, order)
            IN  IF st.err = NoStoreError THEN st
                ELSE [st EXCEPT !.db = Committed(db, st),
                                !.err = DatabaseError("Failed to store REE data in database", st.err)]

\* cleanupOldData(daysToKeep): deleteMany of the balances created before the
\* cutoff; onDelete: Cascade removes their categories, the sources of those
\* and the values of those. CutoffDate is `cutoffDate.setDate(getDate() -
\* daysToKeep)`; IsOldInclusive is the variant of `lt` that is `lte`.
CutoffDate(t, daysToKeep) == t - daysToKeep * TicksPerDay
IsOldInclusive(r, cutoff) == r.createdAt <= cutoff
IsOld(r, cutoff) == r.createdAt < cutoff

\* The cascade of the relations of the schema. CascadeNone is the variant
\* without it.
CascadeNone(db, gone) == [db EXCEPT !.balances = @ \ gone]
Cascade(db, gone) ==
    LET goneCats == {c \in db.categories : c.balanceId \in {b.id : b \in gone}}
        goneSrcs == {x \in db.sources : x.categoryId \in {c.id : c \in goneCats}}
        goneVals == {v \in db.values : v.sourceId \in {x.id : x \in goneSrcs}}
    IN  [balances |-> db.balances \ gone,
         categories |-> db.categories \ goneCats,
         sources |-> db.sources \ goneSrcs,
         values |-> db.values \ goneVals]

CleanupOldData(db, daysToKeep, t) ==
    LET gone == {r \in db.balances : IsOld(r, CutoffDate(t, daysToKeep))}
    IN  [db |-> Cascade(db, gone), count |-> Cardinality(gone)]

(***************************************************************************)
(* The payloads and the storage calls of the specifications                *)
(***************************************************************************)
Val(dt, v, pc) == [datetime |-> dt, value |-> v, percentage |-> pc]
Src(id, gid, title, vals) ==
    [id |-> id, groupId |-> gid, type |-> "Hidraulica", title |-> title,
     lastUpdate |-> "L", total |-> Some(100), values |-> vals]
Cat(id, type, title, content) ==
    [id |-> id, type |-> type, title |-> title, lastUpdate |-> "L",
     hasContent |-> TRUE, content |-> content]
Pay(id, title, lastUpdate, included) ==
    [id |-> id, title |-> title, lastUpdate |-> lastUpdate, included |-> included]

\* The sequences over S of length at most n.
SeqsUpTo(S, n) == UNION {[1..k -> S] : k \in 0..n}

\* The permutations of 1..n, as sequences.
Perms(n) == {f \in [1..n -> 1..n] : \A i, j \in 1..n : f[i] = f[j] => i = j}

\* The largest Promise.all of a run.
RECURSIVE MaxBatch(_)
MaxBatch(ops) ==
    IF ops = <<>> THEN 0
    ELSE LET m == MaxBatch(Tail(ops))
             n == IF Head(ops).kind = "values" THEN Len(Head(ops).frag) ELSE 0
         IN  IF n > m THEN n ELSE m

\* The call numbers of each operation of a run.
RECURSIVE OpRanges(_, _)
OpRanges(ops, base) ==
    IF ops = <<>> THEN {}
    ELSE {(base + 1)..(base + OpCalls(Head(ops)))}
           \cup OpRanges(Tail(ops), base + OpCalls(Head(ops)))

\* Which prisma calls of a run throw: none, or some calls of one operation
\* (the run stops at the first operation that throws).
FailChoices(ops) ==
    {{}} \cup UNION {SUBSET R \ {{}} : R \in OpRanges(ops, 0)}

\* The positions <<category, source, value>> of the value fragments of p.
ValuePositions(p) ==
    {<<i, j, k>> \in (1..3) \X (1..3) \X (1..3) :
        /\ i \in DOMAIN p.included
        /\ j \in DOMAIN p.included[i].content
        /\ k \in DOMAIN p.included[i].content[j].values}

ValueAt(p, pos) == p.included[pos[1]].content[pos[2]].values[pos[3]]

\* The positions where q is p with only the value field of that fragment
\* changed.
Delta(p, q) ==
    {pos \in ValuePositions(p) \cap ValuePositions(q) :
        /\ ValueAt(p, pos).value # ValueAt(q, pos).value
        /\ q = [p EXCEPT !.included[pos[1]].content[pos[2]].values[pos[3]].value =
                            ValueAt(q, pos).value]}

NoPayload == Pay(NULL, NULL, NULL, <<>>)

\* The row counts of getSummaryStats: balances, categories, sources, values.
Counts(db) == <<Cardinality(db.balances), Cardinality(db.categories),
                Cardinality(db.sources), Cardinality(db.values)>>

\* What a call record keeps of the tables as the call found them: the row
\* counts and the natural ids of the sources (and, for a cleanup, the rows).
Summary(db, rows) == [counts |-> Counts(db),
                      sourceIds |-> {r.sourceId : r \in db.sources},
                      rows |-> rows]

NoCall == [op |-> "none", payload |-> NoPayload, date |-> 0, days |-> 0,
           ok |-> TRUE, error |-> NoStoreError, result |-> 0, calls |-> 0,
           at |-> 0, before |-> Summary(EmptyDB, EmptyDB),
           repeat |-> FALSE, delta |-> {}]

StoreInit ==
    /\ balances = {}
    /\ categories = {}
    /\ sources = {}
    /\ values = {}
    /\ now = 0
    /\ last = NoCall

\* A call storeREEData(p, date), p drawn from P and date from D, run to its
\* end: with storageFails, some of its prisma calls may throw.
Store(P, D, storageFails) ==
    \E p \in P, date \in D :
      \E fail \in (IF storageFails THEN FailChoices(StoreOps(p)) ELSE {{}}),
         order \in Perms(MaxBatch(StoreOps(p))) :
      \E st \in {StoreREEData(DB, p, date, now, fail, order)} :
        LET prev == last.op = "store" /\ last.ok
        IN  /\ balances' = st.db.balances
            /\ categories' = st.db.categories
            /\ sources' = st.db.sources
            /\ values' = st.db.values
            /\ last' = [op |-> "store", payload |-> p, date |-> date, days |-> 0,
                        ok |-> (st.err = NoStoreError), error |-> st.err,
                        result |-> 0, calls |-> st.calls, at |-> now,
                        before |-> Summary(DB, EmptyDB),
                        repeat |-> (prev /\ last.payload = p /\ last.date = date),
                        delta |-> IF prev THEN Delta(last.payload, p) ELSE {}]
            /\ UNCHANGED now

\* A call cleanupOldData(daysToKeep): it deletes and returns the count, or
\* deleteMany throws and it fails with a DatabaseError.
Cleanup(Days) ==
    \E d \in Days, fails \in BOOLEAN :
      \E r \in {CleanupOldData(DB, d, now)} :
        LET db == IF fails THEN DB ELSE r.db
        IN  /\ balances' = db.balances
            /\ categories' = db.categories
            /\ sources' = db.sources
            /\ values' = db.values
            /\ last' = [op |-> "cleanup", payload |-> NoPayload, date |-> 0, days |-> d,
                        ok |-> ~fails,
                        error |-> IF fails THEN DatabaseError("Failed to cleanup old data", PrismaError)
                                  ELSE NoStoreError,
                        result |-> IF fails THEN 0 ELSE r.count,
                        calls |-> 1, at |-> now,
                        before |-> Summary(DB, DB), repeat |-> FALSE, delta |-> {}]
            /\ UNCHANGED now

\* Time passes.
MaxNow == 3
Tick ==
    /\ now < MaxNow
    /\ now' = now + 1
    /\ UNCHANGED <<balances, categories, sources, values, last>>

\* The instants passed as balanceDate: two of day 0 and one of day 1.
BalanceDates == {0, 1, TicksPerDay}

\* Payloads that differ in the values of one source.
ValueFrags == {Val("t1", Some(10), Some(50)), Val("t1", Some(20), Some(50)),
               Val("t2", Some(0), Some(0))}
PayloadsV ==
    {Pay("bal1", "T", "L", <<Cat("c1", "Renovable", "Ren", <<Src("s1", "c1", "Hidro", vl)>>)>>) :
        vl \in SeqsUpTo(ValueFrags, 2)}

\* Payloads that differ in the sources of one category: sources of the
\* category, a source of another group and a source without group.
OneValue == <<Val("t1", Some(10), Some(50))>>
SourceFrags == {Src("s1", "c1", "Hidro", OneValue), Src("s2", "c1", "Eolica", <<>>),
                Src("s2", "c2", "Eolica", OneValue), Src("s3", NULL, "Solar", OneValue)}
PayloadsS ==
    {Pay("bal1", "T", "L", <<Cat("c1", "Renovable", "Ren", content)>>) :
        content \in SeqsUpTo(SourceFrags, 2)}
      \cup {Pay("bal1", "T", "L",
                <<Cat("c2", "Demanda", "Dem", <<>>),
                  Cat("c1", "Renovable", "Ren",
                      <<Src("s2", "c2", "Eolica", OneValue), Src("s1", "c1", "Hidro", OneValue)>>)>>)}

\* Payloads that differ in their balance and in their categories.
CategoryFrags == {Cat("c1", "Renovable", "Ren", <<Src("s1", "c1", "Hidro", OneValue)>>),
                  Cat("c2", "Demanda", "Dem", <<>>)}
PayloadsC ==
    {Pay(b, "T", "L", inc) : b \in {"bal1", "bal2"}, inc \in SeqsUpTo(CategoryFrags, 2)}

\* Payloads that differ in the fields of data.
PayloadsB ==
    {Pay(id, title, lu, inc) :
        id \in {NULL, "bal1"}, title \in {NULL, "T", "U"}, lu \in {NULL, "L"},
        inc \in {<<>>, <<Cat("c1", "Renovable", "Ren", <<>>)>>}}

\* Payloads of several shapes: no category; repeated timestamps and a source
\* of another group; two categories under another balance.
PayloadsI ==
    {Pay("bal1", "T", "L", <<>>),
     Pay("bal1", "U", "L", <<Cat("c1", "Renovable", "Ren",
        <<Src("s1", "c1", "Hidro", <<Val("t1", Some(10), Some(50)), Val("t1", Some(20), Some(50))>>),
          Src("s2", "c2", "Eolica", OneValue)>>)>>),
     Pay("bal2", "T", "L", <<Cat("c1", "Renovable", "Ren", <<Src("s1", "c1", "Hidro", OneValue)>>),
                             Cat("c2", "Demanda", "Dem", <<>>)>>)}

\* Payloads that differ in the values of one source: values with a zero
\* number and values that lack the timestamp, the value or the percentage.
ValueFragsW == {Val("t1", Some(10), Some(50)), Val("t2", Some(0), Some(0)),
                Val(NULL, Some(1), Some(1)), Val("t3", None, Some(1)),
                Val("t4", Some(1), None)}
PayloadsW ==
    {Pay("bal1", "T", "L", <<Cat("c1", "Renovable", "Ren", <<Src("s1", "c1", "Hidro", vl)>>)>>) :
        vl \in SeqsUpTo(ValueFragsW, 2)}

\* Payloads that differ in their included fragments: two categories and
\* fragments that lack the type, a known type, the id, the title, the
\* last-update or the content array.
IncludedFrags ==
    {Cat("c1", "Renovable", "Ren", <<>>),
     Cat("c2", "Demanda", "Dem", <<>>),
     Cat("x1", NULL, "Ren", <<>>),
     Cat("x2", "Otro", "Ren", <<>>),
     Cat(NULL, "Renovable", "Ren", <<>>),
     Cat("x3", "Renovable", NULL, <<>>),
     [Cat("x4", "Renovable", "Ren", <<>>) EXCEPT !.lastUpdate = NULL],
     [Cat("x5", "Renovable", "Ren", <<>>) EXCEPT !.hasContent = FALSE]}
PayloadsF ==
    {Pay("bal1", "T", "L", inc) : inc \in SeqsUpTo(IncludedFrags, 2)}

\* The payloads of the retention runs.
PayloadsR ==
    {Pay("bal1", "T", "L", <<Cat("c1", "Renovable", "Ren", <<Src("s1", "c1", "Hidro", OneValue)>>)>>),
     Pay("bal1", "T", "L", <<Cat("c2", "Demanda", "Dem", <<>>)>>)}
RetentionDays == {0, 1}

NextStore ==
    \/ Store(PayloadsI, BalanceDates, TRUE) /\ UNCHANGED <<fetchVars, schedVars, queryVars, controlVars, raceVars, trackVars>>

NextStoreV ==
    \/ Store(PayloadsV, {0}, TRUE) /\ UNCHANGED <<fetchVars, schedVars, queryVars, controlVars, raceVars, trackVars>>

NextStoreS ==
    \/ Store(PayloadsS, {0}, TRUE) /\ UNCHANGED <<fetchVars, schedVars, queryVars, controlVars, raceVars, trackVars>>

NextStoreC ==
    \/ Store(PayloadsC, {0}, TRUE) /\ UNCHANGED <<fetchVars, schedVars, queryVars, controlVars, raceVars, trackVars>>

NextStoreW ==
    \/ Store(PayloadsW, {0}, TRUE) /\ UNCHANGED <<fetchVars, schedVars, queryVars, controlVars, raceVars, trackVars>>

NextStoreF ==
    \/ Store(PayloadsF, {0}, TRUE) /\ UNCHANGED <<fetchVars, schedVars, queryVars, controlVars, raceVars, trackVars>>

NextStoreB ==
    \/ Store(PayloadsB, BalanceDates, TRUE) /\ UNCHANGED <<fetchVars, schedVars, queryVars, controlVars, raceVars, trackVars>>

NextPurge ==
    \/ Store(PayloadsR, {0, TicksPerDay}, FALSE) /\ UNCHANGED <<fetchVars, schedVars, queryVars, controlVars, raceVars, trackVars>>
    \/ Cleanup(RetentionDays) /\ UNCHANGED <<fetchVars, schedVars, queryVars, controlVars, raceVars, trackVars>>
    \/ Tick /\ UNCHANGED <<fetchVars, schedVars, queryVars, controlVars, raceVars, trackVars>>

(***************************************************************************)
(* storeREEData runs and cleanups, with the record of what each balance's  *)
(* runs upserted                                                           *)
(***************************************************************************)
TrackInit == upserted = {}

\* The natural keys a run of payload p upserts: its categories, its sources
\* and, after each source, its values.
UpsertedKeys(p) ==
    LET ops == StoreOps(p)
    IN  {<<"categories", <<ops[i].frag.id>>>> : i \in {j \in DOMAIN ops : ops[j].kind = "category"}}
          \cup {<<"sources", <<ops[i].frag.id>>>> : i \in {j \in DOMAIN ops : ops[j].kind = "source"}}
          \cup UNION {{<<"values", <<ops[i - 1].frag.id, ops[i].frag[k].datetime>>>> :
                          k \in DOMAIN ops[i].frag} :
                      i \in {j \in DOMAIN ops : ops[j].kind = "values"}}

\* A storeREEData call, recorded when it ends without error.
StoreTracked(P, D) ==
    /\ Store(P, D, FALSE)
    /\ upserted' =
          IF last'.ok
             THEN upserted \cup
                     {<<<<last'.payload.id, startOfDay(last'.date)>>, e[1], e[2]>> :
                         e \in UpsertedKeys(last'.payload)}
             ELSE upserted

\* A cleanupOldData call: the record of the balances it deleted goes with
\* them.
CleanupTracked(Days) ==
    /\ Cleanup(Days)
    /\ upserted' =
          {e \in upserted : \E b \in balances' : e[1] = <<b.balanceId, b.balanceDate>>}

NextRelink ==
    \/ StoreTracked(PayloadsR, {0, TicksPerDay})
          /\ UNCHANGED <<fetchVars, schedVars, queryVars, controlVars, raceVars>>
    \/ CleanupTracked(RetentionDays)
          /\ UNCHANGED <<fetchVars, schedVars, queryVars, controlVars, raceVars>>
    \/ Tick /\ UNCHANGED <<fetchVars, schedVars, queryVars, controlVars, raceVars, trackVars>>

(***************************************************************************)
(* storeREEData runs in progress together: one prisma command at a time    *)
(***************************************************************************)
\* The callers whose runs overlap: a task's callback and manualFetch.
Runners == {"scheduled", "manual"}

\* The date both runs store under.
RaceDate == 0

\* The payloads of the overlapping runs: two categories and two timestamps;
\* another title and value for the same keys; one timestamp listed twice.
PayloadsX ==
    {Pay("bal1", "T", "L",
         <<Cat("c1", "Renovable", "Ren",
               <<Src("s1", "c1", "Hidro", <<Val("t1", Some(10), Some(50)), Val("t2", Some(0), Some(0))>>)>>),
           Cat("c2", "Demanda", "Dem", <<>>)>>),
     Pay("bal1", "U", "L",
         <<Cat("c1", "Renovable", "Ren",
               <<Src("s1", "c1", "Hidro", <<Val("t1", Some(20), Some(50))>>)>>)>>),
     Pay("bal1", "T", "L",
         <<Cat("c1", "Renovable", "Ren",
               <<Src("s1", "c1", "Hidro", <<Val("t1", Some(10), Some(50)), Val("t1", Some(20), Some(50))>>)>>)>>)}

NoId == <<>>

\* A run: the next operation of StoreOps(payload) to issue, the ids it holds,
\* its upserts in flight and the events of its prisma calls in order:
\* <<"issue", op, k>>, then <<"end", op, k>> or <<"throw", op, k>>.
IdleTx == [pc |-> "idle", payload |-> NoPayload, date |-> 0, next |-> 1,
           bal |-> NoId, cat |-> NoId, src |-> NoId, pending |-> {},
           err |-> NoStoreError, log |-> <<>>]

NoWrites == [balances |-> {}, categories |-> {}, sources |-> {}, values |-> {}]

RaceInit ==
    /\ txs = [x \in Runners |-> IdleTx]
    /\ written = NoWrites

\* `await this._upsertEnergyValues(values, upsertedSource.id)`: the source loop
\* goes on once every upsert of the Promise.all has ended. ValuesAwaitedNot is
\* the variant that does not await.
ValuesAwaitedNot == FALSE
ValuesAwaited == TRUE

\* The run issues its next operation and goes on to its next await.
RECURSIVE Issue(_)
Issue(tx) ==
    LET ops == StoreOps(tx.payload)
        i == tx.next
    IN  IF i > Len(ops) THEN [tx EXCEPT !.pc = "done"]
        ELSE IF ops[i].kind = "balance" /\ BalanceDataMissing(ops[i].frag)
        THEN [tx EXCEPT !.pc = "failed",
                        !.err = DatabaseError("Failed to store REE data in database",
                                    PlainError("Invalid API response: missing required balance data"))]
        ELSE LET n == OpCalls(ops[i])
                 tx1 == [tx EXCEPT !.next = i + 1,
                                   !.pending = @ \cup {[op |-> i, k |-> k, phase |-> "find", found |-> FALSE] :
                                                          k \in 1..n},
                                   !.log = @ \o [k \in 1..n |-> <<"issue", i, k>>]]
             IN  IF n = 0 \/ (ops[i].kind = "values" /\ ~ValuesAwaited) THEN Issue(tx1) ELSE tx1

\* storeREEData(p, d) is called: it runs up to its first await.
TxBeginWith(x, P, D) ==
    /\ txs[x].pc = "idle"
    /\ \E p \in P, d \in D :
         LET tx0 == [IdleTx EXCEPT !.pc = "running", !.payload = p, !.date = d]
         IN  txs' = [txs EXCEPT ![x] =
                        IF PayloadInvalid(p)
                           THEN [tx0 EXCEPT !.pc = "failed",
                                            !.err = DatabaseError("Failed to store REE data in database",
                                                        PlainError("Invalid API response: missing required data fields"))]
                           ELSE Issue(tx0)]
    /\ UNCHANGED <<storeVars, written>>

\* storeREEData(p, RaceDate) is called.
TxBegin(x) == TxBeginWith(x, PayloadsX, {RaceDate})

\* The fragment and the table of an upsert in flight.
FragOf(tx, u) ==
    LET op == StoreOps(tx.payload)[u.op]
    IN  IF op.kind = "values" THEN op.frag[u.k] ELSE op.frag
KindOf(tx, u) == StoreOps(tx.payload)[u.op].kind
TableOf(kind) ==
    CASE kind = "balance" -> "balances"
      [] kind = "category" -> "categories"
      [] kind = "source" -> "sources"
      [] OTHER -> "values"

\* The rows the `where` of the upsert finds.
Hit(db, tx, u) ==
    LET f == FragOf(tx, u)
    IN  CASE KindOf(tx, u) = "balance" -> {r \in db.balances : BalanceKey(r, f, tx.date)}
          [] KindOf(tx, u) = "category" -> {r \in db.categories : CategoryKey(r, f, tx.bal)}
          [] KindOf(tx, u) = "source" -> {r \in db.sources : SourceKey(r, f)}
          [] OTHER -> {r \in db.values : ValueKey(r, f, tx.src)}

\* @unique / @@unique of the schema: the index refuses a create whose key a
\* row holds. UniqueIndexNone is the variant without the index.
UniqueIndexNone(hit) == FALSE
UniqueIndex(hit) == hit # {}

UniqueConstraintError ==
    [name |-> "PrismaClientKnownRequestError", message |-> "Unique constraint failed", cause |-> NULL]

\* The update of an upsert whose row was deleted after its read.
RecordNotFoundError ==
    [name |-> "PrismaClientKnownRequestError", message |-> "Record to update not found", cause |-> NULL]

\* The second command of an upsert: the update of the row found, or the
\* create when none was found.
WriteRow(db, tx, u, t) ==
    LET f == FragOf(tx, u)
        kind == KindOf(tx, u)
        hit == Hit(db, tx, u)
        tab == TableOf(kind)
    IN  IF u.found /\ hit # {}
           THEN LET old == CHOOSE r \in hit : TRUE
                    new == CASE kind = "balance" -> BalanceUpdate(old, f)
                             [] kind = "category" -> CategoryUpdate(old, f, tx.bal)
                             [] kind = "source" -> SourceUpdate(old, f, tx.cat)
                             [] OTHER -> ValueUpdate(old, f)
                IN  [db |-> [db EXCEPT ![tab] = Replaced(@, old, new)], id |-> old.id, ok |-> TRUE]
        ELSE IF u.found \/ UniqueIndex(hit)
           THEN [db |-> db, id |-> NoId, ok |-> FALSE]
        ELSE LET new == CASE kind = "balance" -> NewBalance(db, f, tx.date, t)
                          [] kind = "category" -> NewCategory(db, f, tx.bal)
                          [] kind = "source" -> NewSource(db, f, tx.cat)
                          [] OTHER -> NewValue(db, f, tx.src)
             IN  [db |-> [db EXCEPT ![tab] = @ \cup {new}], id |-> new.id, ok |-> TRUE]

\* The natural key an upsert writes under, and what it wrote.
WrittenKey(tx, u) ==
    LET f == FragOf(tx, u)
    IN  CASE KindOf(tx, u) = "balance" -> <<f.id, startOfDay(tx.date)>>
          [] KindOf(tx, u) = "category" -> <<f.id>>
          [] KindOf(tx, u) = "source" -> <<f.id>>
          [] OTHER -> <<tx.src, f.datetime>>
Writes(w, tx, u) ==
    LET tab == TableOf(KindOf(tx, u))
        key == WrittenKey(tx, u)
    IN  [w EXCEPT ![tab] = {e \in @ : e.key # key} \cup {[key |-> key, frag |-> FragOf(tx, u)]}]

\* The first command of an upsert in flight: the read by the unique key.
TxFind(x) ==
    \E u \in txs[x].pending :
        /\ u.phase = "find"
        /\ txs' = [txs EXCEPT ![x].pending =
                      (@ \ {u}) \cup {[u EXCEPT !.phase = "write",
                                                !.found = (Hit(DB, txs[x], u) # {})]}]
        /\ UNCHANGED <<storeVars, written>>

\* The second command of an upsert in flight ends; the run goes on when the
\* call it awaits has ended, and throws a DatabaseError when it has rejected
\* (the other upserts of a Promise.all stay in flight).
TxWrite(x) ==
    \E u \in txs[x].pending :
        /\ u.phase = "write"
        /\ \E w \in {WriteRow(DB, txs[x], u, now)} :
             LET tx == txs[x]
                 kind == KindOf(tx, u)
                 tx1 == [tx EXCEPT !.pending = @ \ {u},
                                   !.log = Append(@, <<IF w.ok THEN "end" ELSE "throw", u.op, u.k>>),
                                   !.bal = IF w.ok /\ kind = "balance" THEN w.id ELSE @,
                                   !.cat = IF w.ok /\ kind = "category" THEN w.id ELSE @,
                                   !.src = IF w.ok /\ kind = "source" THEN w.id ELSE @]
                 awaited == u.op = tx.next - 1
                 tx2 == IF tx.pc # "running" \/ ~awaited THEN tx1
                        ELSE IF ~w.ok
                           THEN [tx1 EXCEPT !.pc = "failed",
                                            !.err = DatabaseError("Failed to store REE data in database",
                                                                  IF u.found THEN RecordNotFoundError
                                                                  ELSE UniqueConstraintError)]
                        ELSE IF \E v \in tx1.pending : v.op = u.op THEN tx1
                        ELSE Issue(tx1)
             IN  /\ txs' = [txs EXCEPT ![x] = tx2]
                 /\ balances' = w.db.balances
                 /\ categories' = w.db.categories
                 /\ sources' = w.db.sources
                 /\ values' = w.db.values
                 /\ written' = IF w.ok THEN Writes(written, tx, u) ELSE written
                 /\ UNCHANGED <<now, last>>

NextRace ==
    \/ \E x \in Runners : TxBegin(x) /\ UNCHANGED <<fetchVars, schedVars, queryVars, controlVars, trackVars>>
    \/ \E x \in Runners : TxFind(x) /\ UNCHANGED <<fetchVars, schedVars, queryVars, controlVars, trackVars>>
    \/ \E x \in Runners : TxWrite(x) /\ UNCHANGED <<fetchVars, schedVars, queryVars, controlVars, trackVars>>

(***************************************************************************)
(* storeREEData runs in progress while cleanupOldData is called            *)
(***************************************************************************)
\* The payload of the runs a cleanup meets: one category with one source and
\* one value.
PayloadsQ ==
    {Pay("bal1", "T", "L", <<Cat("c1", "Renovable", "Ren", <<Src("s1", "c1", "Hidro", OneValue)>>)>>)}

\* cleanupOldData(0): every balance created before now goes.
RacePurgeDays == {0}

NextRacePurge ==
    \/ \E x \in Runners : TxBeginWith(x, PayloadsQ, {RaceDate})
          /\ UNCHANGED <<fetchVars, schedVars, queryVars, controlVars, trackVars>>
    \/ \E x \in Runners : TxFind(x) /\ UNCHANGED <<fetchVars, schedVars, queryVars, controlVars, trackVars>>
    \/ \E x \in Runners : TxWrite(x) /\ UNCHANGED <<fetchVars, schedVars, queryVars, controlVars, trackVars>>
    \/ Cleanup(RacePurgeDays)
          /\ UNCHANGED <<fetchVars, schedVars, queryVars, controlVars, raceVars, trackVars>>
    \/ Tick /\ UNCHANGED <<fetchVars, schedVars, queryVars, controlVars, raceVars, trackVars>>

(***************************************************************************)
(* storeREEData runs for two dates in progress together                    *)
(***************************************************************************)
\* The payload both runs carry: two categories.
PayloadsD ==
    {Pay("bal1", "T", "L",
         <<Cat("c1", "Renovable", "Ren", <<>>), Cat("c2", "Demanda", "Dem", <<>>)>>)}

\* The dates of the runs: today (fetchCurrentData) and another day
\* (fetchPreviousData).
RaceDates == {0, TicksPerDay}

NextRaceDates ==
    \/ \E x \in Runners : TxBeginWith(x, PayloadsD, RaceDates)
          /\ UNCHANGED <<fetchVars, schedVars, queryVars, controlVars, trackVars>>
    \/ \E x \in Runners : TxFind(x) /\ UNCHANGED <<fetchVars, schedVars, queryVars, controlVars, trackVars>>
    \/ \E x \in Runners : TxWrite(x) /\ UNCHANGED <<fetchVars, schedVars, queryVars, controlVars, trackVars>>

(***************************************************************************)
(* powerGridResolvers.Query.electricBalanceByDateRange                     *)
(***************************************************************************)
\* Time is counted in hours here: (1000 * 60 * 60 * 24) ms are HoursPerDay.
HoursPerDay == 24
MaxRangeDays == 365

\* A date argument: a string parseISO cannot read, or one it reads as the
\* instant t.
DateString(valid, t) == [valid |-> valid, t |-> t]
DateStrings ==
    {DateString(FALSE, 0)} \cup
    {DateString(TRUE, t) :
        t \in {0, 1, HoursPerDay, 2 * HoursPerDay + 1,
               MaxRangeDays * HoursPerDay - 1, MaxRangeDays * HoursPerDay,
               MaxRangeDays * HoursPerDay + 1, (MaxRangeDays + 1) * HoursPerDay,
               (MaxRangeDays + 1) * HoursPerDay + 1, (MaxRangeDays + 2) * HoursPerDay}}

\* validateDateString: the error it throws, NULL when it returns.
validateDateString(d) == IF ~d.valid THEN "Invalid date format" ELSE NULL

\* Math.ceil((endDate.getTime() - startDate.getTime()) / day), for
\* startDate <= endDate. DaysDiffFloor is the variant that rounds down.
DaysDiffFloor(startT, endT) == (endT - startT) \div HoursPerDay
DaysDiff(startT, endT) == (endT - startT + HoursPerDay - 1) \div HoursPerDay

\* validateDateRange: the error it throws, NULL when it returns.
validateDateRange(startT, endT) ==
    IF startT > endT THEN "Start date must be before end date"
    ELSE IF DaysDiff(startT, endT) > MaxRangeDays THEN "Date range cannot exceed 365 days"
    ELSE NULL

NoQuery == [startDate |-> DateString(FALSE, 0), endDate |-> DateString(FALSE, 0),
            called |-> FALSE, error |-> NULL, reads |-> 0]

QueryInit == query = NoQuery

\* electricBalanceByDateRange(startDate, endDate), to its end: the two
\* strings are validated, then the range, then
\* databaseService.getElectricBalanceByDateRange is awaited.
electricBalanceByDateRange ==
    \E sd \in DateStrings, ed \in DateStrings :
        LET e1 == validateDateString(sd)
            e2 == validateDateString(ed)
            err == IF e1 # NULL THEN e1
                   ELSE IF e2 # NULL THEN e2
                   ELSE validateDateRange(sd.t, ed.t)
        IN  query' = [startDate |-> sd, endDate |-> ed, called |-> TRUE,
                      error |-> err, reads |-> IF err = NULL THEN 1 ELSE 0]

NextQuery ==
    \/ electricBalanceByDateRange /\ UNCHANGED <<fetchVars, storeVars, schedVars, controlVars, raceVars, trackVars>>

(***************************************************************************)
(* ManualDataFetchControls                                                 *)
(***************************************************************************)
\* The number of clicks the buttons take.
MaxClicks == 2

\* fetchTypes: the label of each button.
Labels == [current |-> "Actuales", previous |-> "Anteriores", historical |-> "Historicos"]

ControlsInit ==
    /\ loadingType = NULL
    /\ shown = NULL
    /\ inFlight = <<>>
    /\ toasts = <<>>
    /\ clicks = 0

\* `disabled={loadingType !== null}`, in the render the page shows.
\* DisabledOnlyLoading is the variant that disables the clicked button only.
DisabledOnlyLoading(type) == shown = type
Disabled(type) == shown # NULL

\* How `await fetchData(type)` and what follows it end: a result with or
\* without success, onFetchComplete returning or throwing, or an exception
\* of fetchData.
FetchEndings == {"success", "successThenThrow", "failure", "threw"}

\* The toasts of the try and catch blocks of handleFetch.
ToastsOf(type, ending) ==
    CASE ending = "success" ->
            <<[kind |-> "success", title |-> <<"Datos ", Labels[type], " obtenidos correctamente">>]>>
      [] ending = "successThenThrow" ->
            <<[kind |-> "success", title |-> <<"Datos ", Labels[type], " obtenidos correctamente">>],
              [kind |-> "error", title |-> <<"Error de conexion">>]>>
      [] ending = "failure" ->
            <<[kind |-> "error", title |-> <<"Error al obtener datos ", Labels[type]>>]>>
      [] OTHER ->
            <<[kind |-> "error", title |-> <<"Error de conexion">>]>>

\* The finally block of handleFetch: setLoadingType(null).
LoadingAfterFetch == NULL

\* A click on the button of `type`: handleFetch runs to its await. A button
\* that is disabled takes no click; React commits the state a click handler
\* sets before the page takes another event.
handleFetch ==
    \E type \in FetchTypes :
        /\ clicks < MaxClicks
        /\ ~Disabled(type)
        /\ loadingType' = type
        /\ shown' = type
        /\ inFlight' = Append(inFlight, type)
        /\ clicks' = clicks + 1
        /\ UNCHANGED toasts

\* `await fetchData(type)` ends and handleFetch runs to its end.
FetchEnds ==
    \E k \in DOMAIN inFlight, ending \in FetchEndings :
        /\ toasts' = toasts \o ToastsOf(inFlight[k], ending)
        /\ loadingType' = LoadingAfterFetch
        /\ inFlight' = [j \in 1..(Len(inFlight) - 1) |->
                           IF j < k THEN inFlight[j] ELSE inFlight[j + 1]]
        /\ UNCHANGED <<shown, clicks>>

\* React renders the component with the state set after the await.
Render ==
    /\ shown # loadingType
    /\ shown' = loadingType
    /\ UNCHANGED <<loadingType, inFlight, toasts, clicks>>

NextControls ==
    \/ handleFetch /\ UNCHANGED <<fetchVars, storeVars, schedVars, queryVars, raceVars, trackVars>>
    \/ FetchEnds /\ UNCHANGED <<fetchVars, storeVars, schedVars, queryVars, raceVars, trackVars>>
    \/ Render /\ UNCHANGED <<fetchVars, storeVars, schedVars, queryVars, raceVars, trackVars>>

Init ==
    FetchInit /\ StoreInit /\ SchedInit /\ QueryInit /\ ControlsInit /\ RaceInit /\ TrackInit

SpecFetch == Init /\ [][NextFetch]_vars
SpecSched == Init /\ [][NextSched]_vars
InitOverlap ==
    FetchInit /\ StoreInit /\ SchedInitOverlap /\ QueryInit /\ ControlsInit /\ RaceInit
        /\ TrackInit
SpecOverlap == InitOverlap /\ [][NextSched]_vars
SpecStore == Init /\ [][NextStore]_vars
SpecStoreV == Init /\ [][NextStoreV]_vars
SpecStoreS == Init /\ [][NextStoreS]_vars
SpecStoreC == Init /\ [][NextStoreC]_vars
SpecStoreB == Init /\ [][NextStoreB]_vars
SpecStoreF == Init /\ [][NextStoreF]_vars
SpecStoreW == Init /\ [][NextStoreW]_vars
SpecPurge == Init /\ [][NextPurge]_vars
SpecRelink == Init /\ [][NextRelink]_vars
SpecQuery == Init /\ [][NextQuery]_vars
SpecRace == Init /\ [][NextRace]_vars
SpecRacePurge == Init /\ [][NextRacePurge]_vars
SpecRaceDates == Init /\ [][NextRaceDates]_vars
\* React renders every state update it has scheduled.
SpecControls ==
    Init /\ [][NextControls]_vars
         /\ WF_vars(Render /\ UNCHANGED <<fetchVars, storeVars, schedVars, queryVars, raceVars, trackVars>>)

(***************************************************************************)
(* Properties of REEApiService (checked under SpecFetch)                   *)
(***************************************************************************)
AllCallsFailed == \A k \in DOMAIN fCalls : fCalls[k].kind # "data"

\* C3: when every transport call fails, fetchElectricBalance makes exactly
\* maxRetries (3) betterFetch calls and then throws a REEApiError whose
\* message says "after 3 attempts" and whose cause is the error of the last
\* attempt; it never makes a fourth call and never returns a payload.
C3_RetryExhaustion ==
    /\ Len(fCalls) <= 3
    /\ AllCallsFailed => fPc # "returned" /\ fResult.kind # "payload"
    /\ (AllCallsFailed /\ Len(fCalls) = 3) => fPc = "thrown"
    /\ fPc = "thrown" =>
          /\ AllCallsFailed
          /\ Len(fCalls) = 3
          /\ fResult.kind = "error"
          /\ fResult.error.name = "REEApiError"
          /\ SubSeq(fResult.error.message, 1, 3) =
                <<"Failed to fetch data after ", "3", " attempts: ">>
          /\ fResult.error.cause = AttemptError(fCalls[3])

C3_Witness ==
    /\ fPc = "thrown"
    /\ Len(fCalls) = 3
    /\ fCalls[3].kind = "error"

(***************************************************************************)
(* Properties of SchedulerService (checked under SpecSched)                *)
(***************************************************************************)
\* C1: manualFetch(type) ends in failure whenever the remote fetch or the
\* persist step failed during the job body it ran.
C1_ManualPropagates ==
    \A s \in DOMAIN runs :
        (runs[s].pc = "done" /\ runs[s].origin = "manual" /\ runs[s].error # NULL)
            => runs[s].outcome = "rejected"

\* C2: getStatus() is {isRunning: false, jobCount: 0} whenever the scheduler
\* is stopped, with no task left started, and {isRunning: true, jobCount: 4}
\* whenever it is running, the four tasks being those of the latest start().
C2_StatusMatchesState ==
    /\ getStatus \in {[isRunning |-> FALSE, jobCount |-> 0],
                      [isRunning |-> TRUE, jobCount |-> 4]}
    /\ ~isRunning => cronTasks = {}
    /\ isRunning =>
          /\ cronTasks = Range(jobs)
          /\ Cardinality(cronTasks) = 4
          /\ \A t \in cronTasks : t.gen = jobGen

C2_Witness ==
    /\ isRunning
    /\ jobGen = 2
    /\ getStatus.jobCount = 4

\* C9: when the body of a scheduled job ends, whatever failed in it, it
\* returns normally to the task callback (no error escapes to the timer) and
\* isRunning and the registered tasks are as they were.
C9_ScheduledBodiesSwallow ==
    [][\A s \in DOMAIN runs :
          (runs[s].pc \notin {"idle", "done"} /\ runs'[s].pc = "done"
             /\ runs'[s].origin = "cron")
          => /\ runs'[s].outcome = "resolved"
             /\ UNCHANGED <<isRunning, jobs, cronTasks>>]_vars

C9_Witness ==
    \E s \in DOMAIN runs :
        /\ runs[s].pc = "done"
        /\ runs[s].origin = "cron"
        /\ runs[s].job = "historical"
        /\ runs[s].error = "DatabaseError"
        /\ isRunning
        /\ Len(jobs) = 4

(***************************************************************************)
(* Properties of DatabaseService.storeREEData                              *)
(***************************************************************************)
\* C4 (checked under SpecStore): when storeREEData(p, date) has completed and
\* the next call is storeREEData(p, date) again, the second call, whether it
\* completes or throws, leaves the number of balance, category, source and
\* value rows as it found them.
C4_RepeatKeepsCounts ==
    (last.op = "store" /\ last.repeat) => Counts(DB) = last.before.counts

\* C4 witness: a completed repeat of a payload with a category, a source and
\* a value, over tables that hold rows of the four kinds.
C4_Witness ==
    /\ last.op = "store" /\ last.repeat /\ last.ok
    /\ last.payload.included # <<>>
    /\ \A k \in 1..4 : Counts(DB)[k] >= 1
    /\ Counts(DB)[1] >= 2

\* C5 (checked under SpecStoreC): in every state, no two category rows hold
\* the same categoryId, whichever balances the stored payloads named.
C5_OneRowPerCategoryId ==
    \A r1 \in categories, r2 \in categories :
        r1.categoryId = r2.categoryId => r1 = r2

\* C5 witness: a completed call created a second balance with a payload that
\* names the category c1, which was already stored under the first balance;
\* the category row now belongs to the new balance.
C5_Witness ==
    /\ last.op = "store" /\ last.ok
    /\ last.before.counts[1] >= 1
    /\ Cardinality(balances) = last.before.counts[1] + 1
    /\ \E i \in DOMAIN last.payload.included : last.payload.included[i].id = "c1"
    /\ last.before.counts[2] = Cardinality(categories)
    /\ \E c \in categories, b \in balances :
          /\ c.categoryId = "c1" /\ c.balanceId = b.id
          /\ b.balanceId = last.payload.id
          /\ \E b2 \in balances : b2.balanceId # last.payload.id

\* The positions <<category, source>> of the source fragments of p.
C6_SourcePositions(p) ==
    {<<i, j>> \in (1..3) \X (1..3) :
        i \in DOMAIN p.included /\ j \in DOMAIN p.included[i].content}

\* The source fragment at a position is nested under the category it names.
C6_Matches(p, pos) ==
    LET c == p.included[pos[1]]
        s == c.content[pos[2]]
    IN  s.groupId # NULL /\ s.groupId = c.id

C6_MatchedIds(p) ==
    {p.included[pos[1]].content[pos[2]].id :
        pos \in {q \in C6_SourcePositions(p) : C6_Matches(p, q)}}

C6_MatchedValueKeys(p) ==
    UNION {LET s == p.included[pos[1]].content[pos[2]]
           IN  {<<s.id, s.values[k].datetime>> :
                   k \in {n \in DOMAIN s.values :
                             /\ s.values[n].datetime # NULL
                             /\ s.values[n].value # None
                             /\ s.values[n].percentage # None}} :
           pos \in {q \in C6_SourcePositions(p) : C6_Matches(p, q)}}

\* C6 (checked under SpecStoreS): after storeREEData(p), every source row the
\* call added has the id of a fragment of p whose groupId is the id of the
\* category it is nested under; every source row carries the categoryId of
\* its category row as groupId; and a completed call over empty tables
\* leaves exactly the matching sources and exactly their values.
C6_OnlyMatchingSources ==
    last.op = "store" =>
        /\ ({r.sourceId : r \in sources} \ last.before.sourceIds)
              \subseteq C6_MatchedIds(last.payload)
        /\ \A r \in sources :
              \E c \in categories : c.id = r.categoryId /\ c.categoryId = r.groupId
        /\ last.ok => C6_MatchedIds(last.payload) \subseteq {r.sourceId : r \in sources}
        /\ (last.ok /\ last.before.counts = <<0, 0, 0, 0>>) =>
              /\ {r.sourceId : r \in sources} = C6_MatchedIds(last.payload)
              /\ {<<x.sourceId, r.datetime>> :
                     <<x, r>> \in {xr \in sources \X values : xr[1].id = xr[2].sourceId}}
                   = C6_MatchedValueKeys(last.payload)

\* C6 witness: a completed call over empty tables whose payload nests, under
\* c1, a source of c1 and a source with a value that names another group or
\* none, and whose id no matching fragment carries.
C6_Witness ==
    /\ last.op = "store" /\ last.ok
    /\ last.before.counts = <<0, 0, 0, 0>>
    /\ C6_MatchedIds(last.payload) # {}
    /\ values # {}
    /\ \E pos \in C6_SourcePositions(last.payload) :
          /\ ~C6_Matches(last.payload, pos)
          /\ last.payload.included[pos[1]].content[pos[2]].id
                \notin C6_MatchedIds(last.payload)
          /\ last.payload.included[pos[1]].content[pos[2]].values # <<>>

\* The value rows stored for the source id S and the timestamp T.
C7_Rows(S, T) ==
    {r \in values : r.datetime = T /\ \E x \in sources : x.id = r.sourceId /\ x.sourceId = S}

\* The payload lists the timestamp of the value at pos once for its source.
C7_ListedOnce(p, pos) ==
    Cardinality({q \in ValuePositions(p) :
        /\ p.included[q[1]].content[q[2]].id = p.included[pos[1]].content[pos[2]].id
        /\ ValueAt(p, q).datetime = ValueAt(p, pos).datetime}) = 1

\* C7 (checked under SpecStoreV): when storeREEData(p) has completed and
\* storeREEData(q) completes next, q being p with only the value field of the
\* fragment of source S at timestamp T changed (T listed once for S), then
\* exactly one value row is stored for (S, T) and it holds the value and the
\* percentage of q.
C7_SecondValueWins ==
    (last.op = "store" /\ last.ok) =>
        \A pos \in last.delta :
            C7_ListedOnce(last.payload, pos) =>
                LET S == last.payload.included[pos[1]].content[pos[2]].id
                    v == ValueAt(last.payload, pos)
                    rows == C7_Rows(S, v.datetime)
                IN  /\ Cardinality(rows) = 1
                    /\ \A r \in rows : r.value = v.value[1] /\ r.percentage = v.percentage[1]

\* C7 witness: the second call completed, it changed the value of (s1, t1)
\* from 10 to 20, and the row of (s1, t1) holds 20.
C7_Witness ==
    /\ last.op = "store" /\ last.ok
    /\ \E pos \in last.delta :
          /\ C7_ListedOnce(last.payload, pos)
          /\ ValueAt(last.payload, pos).value = Some(20)
          /\ \E r \in C7_Rows("s1", "t1") : r.value = 20
    /\ Cardinality(values) = last.before.counts[4]

\* C10 as the specification states it (checked under SpecStoreB): a payload
\* without id or without title makes storeREEData fail with an error named
\* InvalidPayloadError, and the call issues no write.
C10_InvalidPayloadError ==
    (last.op = "store" /\ (last.payload.id = NULL \/ last.payload.title = NULL)) =>
        /\ ~last.ok
        /\ last.error.name = "InvalidPayloadError"
        /\ last.calls = 0
        /\ Counts(DB) = last.before.counts

\* C10 (checked under SpecStoreB): a payload without id or without title
\* makes storeREEData fail with a DatabaseError, "Failed to store REE data in
\* database", whose cause is "Invalid API response: missing required data
\* fields", and the call issues no write: the row counts stay as they were.
C10_RejectedAsDatabaseError ==
    (last.op = "store" /\ (last.payload.id = NULL \/ last.payload.title = NULL)) =>
        /\ ~last.ok
        /\ last.error.name = "DatabaseError"
        /\ last.error.message = "Failed to store REE data in database"
        /\ last.error.cause = "Invalid API response: missing required data fields"
        /\ last.calls = 0
        /\ Counts(DB) = last.before.counts

\* C10 witness: a payload with an id, a category and no title is rejected
\* over tables that already hold a balance.
C10_Witness ==
    /\ last.op = "store" /\ ~last.ok
    /\ last.payload.id # NULL /\ last.payload.title = NULL
    /\ last.payload.included # <<>>
    /\ last.calls = 0
    /\ balances # {}

(***************************************************************************)
(* Properties of DatabaseService.cleanupOldData (checked under SpecPurge)  *)
(***************************************************************************)
\* The balances a cleanup found that were created before its cutoff.
C8_Old ==
    {b \in last.before.rows.balances :
        b.createdAt < last.at - last.days * TicksPerDay}

\* C8: after a completed cleanupOldData(daysToKeep), the balances stored are
\* those it found minus those created strictly before now - daysToKeep; the
\* categories of the deleted balances, the sources of those categories and
\* the values of those sources are gone and every other row is kept; the
\* result is the number of balances deleted.
C8_CleanupDeletesOldAndCascades ==
    (last.op = "cleanup" /\ last.ok) =>
        LET B == last.before.rows
            goneCats == {c \in B.categories : \E b \in C8_Old : c.balanceId = b.id}
            goneSrcs == {x \in B.sources : \E c \in goneCats : x.categoryId = c.id}
            goneVals == {v \in B.values : \E x \in goneSrcs : v.sourceId = x.id}
        IN  /\ balances = B.balances \ C8_Old
            /\ categories = B.categories \ goneCats
            /\ sources = B.sources \ goneSrcs
            /\ values = B.values \ goneVals
            /\ last.result = Cardinality(C8_Old)

\* C8 witness: a cleanup that kept a day deleted one of two balances, with
\* its category, source and value, and kept the other balance, its category
\* included; it returned 1.
C8_Witness ==
    /\ last.op = "cleanup" /\ last.ok /\ last.days = 1
    /\ last.result = 1
    /\ Cardinality(last.before.rows.balances) = 2
    /\ Cardinality(balances) = 1
    /\ last.before.rows.values # {} /\ values = {}
    /\ last.before.rows.sources # {} /\ sources = {}
    /\ Cardinality(last.before.rows.categories) = 2
    /\ Cardinality(categories) = 1

(***************************************************************************)
(* Further properties of DatabaseService.storeREEData                      *)
(***************************************************************************)
\* The payload has its data fields; its categories qualify and have distinct
\* ids; its sources name their category, have their fields and distinct ids;
\* its values have their fields and distinct timestamps per source.
C11_WellFormed(p) ==
    /\ p.id # NULL /\ p.title # NULL /\ p.lastUpdate # NULL
    /\ \A i \in DOMAIN p.included :
          LET c == p.included[i]
          IN  /\ c.type \in CategoryTypes /\ c.id # NULL /\ c.title # NULL
              /\ c.lastUpdate # NULL /\ c.hasContent
              /\ \A k \in DOMAIN p.included : p.included[k].id = c.id => k = i
    /\ \A pos \in C6_SourcePositions(p) :
          LET x == p.included[pos[1]].content[pos[2]]
          IN  /\ C6_Matches(p, pos)
              /\ x.id # NULL /\ x.type # NULL /\ x.title # NULL /\ x.lastUpdate # NULL
              /\ \A q \in C6_SourcePositions(p) :
                    p.included[q[1]].content[q[2]].id = x.id => q = pos
    /\ \A pos \in ValuePositions(p) :
          LET v == ValueAt(p, pos)
          IN  /\ v.datetime # NULL /\ v.value # None /\ v.percentage # None
              /\ \A q \in ValuePositions(p) :
                    (q[1] = pos[1] /\ q[2] = pos[2] /\ ValueAt(p, q).datetime = v.datetime)
                        => q = pos

\* C11 (checked under SpecStoreC): a completed storeREEData(p, date) over
\* empty tables, p well-formed with c categories, s sources and v values,
\* leaves 1 balance, c categories, s sources and v values: the balance with
\* p's id and title and the start of day of date, each category with its id,
\* type and title and linked to the balance, each source with its id, title
\* and total and linked to its category, each value with its timestamp,
\* value and percentage and linked to its source.
C11_RowsOfPayload ==
    (last.op = "store" /\ last.ok /\ last.before.counts = <<0, 0, 0, 0>>
        /\ C11_WellFormed(last.payload)) =>
      LET p == last.payload
      IN  /\ Counts(DB) = <<1, Len(p.included),
                            Cardinality(C6_SourcePositions(p)),
                            Cardinality(ValuePositions(p))>>
          /\ \A b \in balances :
                /\ b.balanceId = p.id /\ b.title = p.title
                /\ b.balanceDate = startOfDay(last.date) /\ b.createdAt = last.at
          /\ \A i \in DOMAIN p.included :
                \E c \in categories, b \in balances :
                    /\ c.categoryId = p.included[i].id /\ c.type = p.included[i].type
                    /\ c.title = p.included[i].title /\ c.balanceId = b.id
          /\ \A pos \in C6_SourcePositions(p) :
                LET x == p.included[pos[1]].content[pos[2]]
                IN  \E r \in sources, c \in categories :
                        /\ r.sourceId = x.id /\ r.title = x.title
                        /\ r.groupId = x.groupId
                        /\ r.total = (IF x.total = None THEN 0 ELSE x.total[1])
                        /\ r.categoryId = c.id /\ c.categoryId = p.included[pos[1]].id
          /\ \A pos \in ValuePositions(p) :
                LET x == p.included[pos[1]].content[pos[2]]
                    v == ValueAt(p, pos)
                IN  \E r \in values, y \in sources :
                        /\ r.sourceId = y.id /\ y.sourceId = x.id
                        /\ r.datetime = v.datetime
                        /\ r.value = v.value[1] /\ r.percentage = v.percentage[1]

\* C11 witness: the payload with category c1 (Renovable), its source s1 with
\* total 100 and one value 10, and a second category c2, stored over empty
\* tables.
C11_Witness ==
    /\ last.op = "store" /\ last.ok /\ last.before.counts = <<0, 0, 0, 0>>
    /\ C11_WellFormed(last.payload)
    /\ Counts(DB) = <<1, 2, 1, 1>>
    /\ \E r \in sources : r.sourceId = "s1" /\ r.total = 100
    /\ \E r \in values : r.value = 10
    /\ \E c \in categories : c.categoryId = "c1" /\ c.type = "Renovable"

(***************************************************************************)
(* Further properties of SchedulerService and of the manualDataFetch       *)
(* resolver (checked under SpecSched)                                      *)
(***************************************************************************)
\* The manual fetch of run r failed: the remote fetch or the persist step of
\* a current-day or previous-day fetch failed (the historical fetch isolates
\* the failure of a day).
C12_Failed(r) == r.job # "historical" /\ r.error # NULL

\* C12: when a manual fetch made through the manualDataFetch resolver has
\* ended, its response has success = true exactly when the fetch did not
\* fail, and after a failure the response is success = false with a message
\* that holds the failure's message.
C12_ResolverReportsFailure ==
    \A s \in DOMAIN runs :
        (runs[s].pc = "done" /\ runs[s].origin = "manual") =>
            /\ runs[s].response.success = ~C12_Failed(runs[s])
            /\ C12_Failed(runs[s]) =>
                  runs[s].response = [success |-> FALSE,
                                      message |-> <<"Failed to fetch data: ", runs[s].error>>]

\* C13: a start() made while the scheduler is running, and a stop() made
\* while it is stopped, change nothing: isRunning, the registered tasks, the
\* tasks held started and the job bodies in progress (no eager fetch begins)
\* are as before the call.
C13_RedundantCallsAreNoOps ==
    [][((lastCall' = "start" /\ isRunning) \/ (lastCall' = "stop" /\ ~isRunning))
          => UNCHANGED <<isRunning, jobs, cronTasks, jobGen, runs>>]_vars

\* C13 witness: start() was called on a running scheduler whose four tasks
\* are those of its first start, while a task's job body was in progress.
C13_Witness ==
    /\ lastCall = "start" /\ isRunning /\ jobGen = 1 /\ Len(jobs) = 4
    /\ \E s \in DOMAIN runs : runs[s].origin = "cron" /\ runs[s].pc = "store"

(***************************************************************************)
(* Properties of electricBalanceByDateRange (checked under SpecQuery)      *)
(***************************************************************************)
\* C14: a query whose two dates are readable is rejected with 'Start date
\* must be before end date' exactly when the start is after the end, with
\* 'Date range cannot exceed 365 days' exactly when the start is not after
\* the end and the span is more than 365 whole days (any part of a day
\* counting as a day), and is not rejected otherwise; no rejected query,
\* whatever the reason, reads storage.
C14_RangeValidation ==
    query.called =>
        /\ (query.startDate.valid /\ query.endDate.valid) =>
              LET span == query.endDate.t - query.startDate.t
              IN  /\ (query.error = "Start date must be before end date") <=> (span < 0)
                  /\ (query.error = "Date range cannot exceed 365 days")
                        <=> (span > MaxRangeDays * HoursPerDay)
                  /\ (query.error = NULL) <=> (span >= 0 /\ span <= MaxRangeDays * HoursPerDay)
        /\ query.error # NULL => query.reads = 0
        /\ query.error = NULL => query.reads = 1

\* C14 witness: a query over 365 days and one hour is rejected for its span
\* without a read.
C14_Witness ==
    /\ query.called
    /\ query.startDate = DateString(TRUE, 0)
    /\ query.endDate = DateString(TRUE, MaxRangeDays * HoursPerDay + 1)
    /\ query.error = "Date range cannot exceed 365 days"
    /\ query.reads = 0

(***************************************************************************)
(* Properties of ManualDataFetchControls (checked under SpecControls)      *)
(***************************************************************************)
\* C15: at most one fetch started from the buttons is in flight, and while
\* it is, the three buttons are disabled; when it ends, with a result of
\* success, a result of failure or an exception, loadingType is reset (it is
\* null whenever no fetch is in flight); and whenever no fetch is in flight
\* the three buttons come to be enabled.
C15_ButtonsDisabledWhileLoading ==
    /\ [](/\ Len(inFlight) <= 1
          /\ inFlight # <<>> => \A type \in FetchTypes : Disabled(type)
          /\ inFlight = <<>> => loadingType = NULL)
    /\ (inFlight = <<>>) ~> (\A type \in FetchTypes : ~Disabled(type))

\* C15 witness: a second fetch, started after the first ended with an
\* exception, is in flight and the buttons are disabled.
C15_Witness ==
    /\ clicks = 2 /\ Len(inFlight) = 1
    /\ \A type \in FetchTypes : Disabled(type)
    /\ toasts = <<[kind |-> "error", title |-> <<"Error de conexion">>]>>

(***************************************************************************)
(* Properties of the balance and category links (SpecStore, SpecStoreB)    *)
(***************************************************************************)
\* The balance rows of the call recorded in c: those of its payload's id and
\* of the day of its date.
BalancesOfCall(c, rows) ==
    {b \in rows : b.balanceId = c.payload.id /\ b.balanceDate = startOfDay(c.date)}

\* C16 (checked under SpecStore): at a storeREEData call, every category row
\* the call creates or changes is linked to the balance row of that call;
\* when the call completes, every category of its payload has its row
\* linked to that balance; and after any call every category row is linked
\* to exactly one stored balance.
C16_CategoryLinkedToLatestBalance ==
    [][last'.op = "store" =>
         /\ \A c \in categories' \ categories :
               \E b \in BalancesOfCall(last', balances') : c.balanceId = b.id
         /\ last'.ok =>
               \A i \in DOMAIN last'.payload.included :
                   \E c \in categories', b \in BalancesOfCall(last', balances') :
                       /\ c.categoryId = last'.payload.included[i].id
                       /\ c.balanceId = b.id
         /\ \A c \in categories' :
               Cardinality({b \in balances' : b.id = c.balanceId}) = 1]_vars

\* C16 witness: the category c1, stored before, is now linked to the balance
\* bal1 of day 1, the balance of the last call, while three balances exist.
C16_Witness ==
    /\ last.op = "store" /\ last.ok
    /\ last.payload.id = "bal1" /\ startOfDay(last.date) = TicksPerDay
    /\ last.before.counts[2] >= 1
    /\ last.before.counts[1] = 3
    /\ last.before.counts[2] = Cardinality(categories)
    /\ \E c \in categories, b \in BalancesOfCall(last, balances) :
          c.categoryId = "c1" /\ c.balanceId = b.id

\* C17 (checked under SpecStoreB): no two balance rows hold the same
\* balanceId and the same day; a completed storeREEData(p, date) leaves one
\* row for p's id and the day of date, with p's title: when a row of that id
\* and day was stored (an instant of the same day was persisted before) the
\* number of balances is unchanged, otherwise (another day, or another id)
\* it grows by one; the rows of the other ids and days are untouched.
C17_BalancePerIdAndDay ==
    [][last'.op = "store" =>
         /\ \A b1 \in balances', b2 \in balances' :
               (b1.balanceId = b2.balanceId /\ b1.balanceDate = b2.balanceDate) => b1 = b2
         /\ last'.ok =>
               LET mine == BalancesOfCall(last', balances')
                   found == BalancesOfCall(last', balances)
               IN  /\ Cardinality(mine) = 1
                   /\ \A b \in mine : b.title = last'.payload.title
                   /\ found # {} => Cardinality(balances') = Cardinality(balances)
                   /\ found = {} => Cardinality(balances') = Cardinality(balances) + 1
                   /\ balances' \ mine = balances \ found]_vars

\* C17 witness: bal1 is stored for day 0 and for day 1, and the last call,
\* for the instant 1 of day 0, found both rows and left the row of day 0
\* with its title U.
C17_Witness ==
    /\ last.op = "store" /\ last.ok
    /\ last.payload.id = "bal1" /\ last.payload.title = "U" /\ last.date = 1
    /\ last.before.counts[1] = 2
    /\ Cardinality(balances) = 2
    /\ \E b \in balances : b.balanceDate = 0 /\ b.title = "U"
    /\ \E b \in balances : b.balanceDate = TicksPerDay /\ b.title = "T"

C19_Eager(r, job) ==
    r.origin = "initial" /\ r.job = job /\ r.pc \in {"fetch", "store"}

\* C19: a start() that finds the scheduler stopped registers the four tasks,
\* sets isRunning and begins one eager current-day fetch, in one step (so
\* before that fetch ends); an eager current-day fetch begins in no other
\* step; when it ends, having failed or not, the eager previous-day fetch
\* begins, and begins at no other point; when that one ends, having failed
\* or not, the eager run is over and nothing is thrown to anyone.
C19_EagerFetchOnStart ==
    [][/\ (lastCall' = "start" /\ ~isRunning /\ isRunning') =>
             /\ Len(jobs') = 4 /\ Range(jobs') \subseteq cronTasks'
             /\ Cardinality({s \in DOMAIN runs :
                    C19_Eager(runs'[s], "current") /\ runs'[s] # runs[s]}) = 1
       /\ \A s \in DOMAIN runs :
             /\ (C19_Eager(runs'[s], "current") /\ ~C19_Eager(runs[s], "current")) =>
                   /\ lastCall' = "start" /\ ~isRunning /\ isRunning'
                   /\ runs'[s].attempted = <<0>> /\ runs'[s].pc = "fetch"
             /\ (C19_Eager(runs[s], "current") /\ ~C19_Eager(runs'[s], "current")) =>
                   /\ C19_Eager(runs'[s], "previous")
                   /\ runs'[s].attempted = <<1>> /\ runs'[s].pc = "fetch"
             /\ (C19_Eager(runs'[s], "previous") /\ ~C19_Eager(runs[s], "previous")) =>
                   C19_Eager(runs[s], "current")
             /\ (C19_Eager(runs[s], "previous") /\ ~C19_Eager(runs'[s], "previous")) =>
                   /\ runs'[s].pc = "done" /\ runs'[s].origin = "initial"
                   /\ runs'[s].outcome = "resolved"]_vars

\* C19 witness: the eager run of a started scheduler is over after both its
\* fetches: the previous-day one ended after the current-day one had failed.
C19_Witness ==
    /\ isRunning /\ Len(jobs) = 4
    /\ \E s \in DOMAIN runs :
          /\ runs[s].origin = "initial" /\ runs[s].job = "previous"
          /\ runs[s].pc = "done" /\ runs[s].outcome = "resolved"
          /\ runs[s].error = "REEApiError"

(***************************************************************************)
(* Further properties of REEApiService (checked under SpecFetch)           *)
(***************************************************************************)
\* C20: a call of fetchElectricBalance has waited once after each failed
\* attempt but the third: 1000 ms after the first and 2000 ms after the
\* second; when it throws, after three failed attempts, it has waited
\* 1000 ms and 2000 ms and nothing after the third.
C20_LinearBackoff ==
    /\ \A k \in DOMAIN fDelays : fDelays[k] = 1000 * k /\ fCalls[k].kind # "data"
    /\ Len(fDelays) <= 2
    /\ fPc \in {"calling", "waiting"} => Len(fDelays) = Len(fCalls)
    /\ fPc = "returned" => Len(fDelays) = Len(fCalls) - 1
    /\ fPc = "thrown" => (Len(fCalls) = 3 /\ fDelays = <<1000, 2000>>)

\* C20 witness: a call has thrown after three failed attempts and two waits.
C20_Witness ==
    /\ fPc = "thrown"
    /\ Len(fCalls) = 3
    /\ fDelays = <<1000, 2000>>
    /\ fResult.error.name = "REEApiError"

\* C21: fetchElectricBalance stops at the first attempt that succeeds: only
\* the last transport call made can have returned data, the call has then
\* returned that call's payload, and a call that threw made three transport
\* calls none of which returned data; so the number of transport calls of a
\* returned call is the index of its first successful attempt, at most 3.
C21_StopsAtFirstSuccess ==
    /\ Len(fCalls) <= 3
    /\ \A k \in DOMAIN fCalls :
          fCalls[k].kind = "data" =>
             /\ k = Len(fCalls)
             /\ fPc = "returned"
             /\ fResult.kind = "payload"
             /\ fResult.payload = fCalls[k].message
    /\ fPc = "returned" =>
          /\ fCalls # <<>>
          /\ fCalls[Len(fCalls)].kind = "data"
    /\ fPc = "thrown" =>
          /\ Len(fCalls) = 3
          /\ \A k \in DOMAIN fCalls : fCalls[k].kind # "data"

\* C21 witness: a call returned the payload of its second attempt, after a
\* first attempt that failed, without a third transport call.
C21_Witness ==
    /\ fPc = "returned"
    /\ Len(fCalls) = 2
    /\ fCalls[1].kind # "data"
    /\ fCalls[2] = [kind |-> "data", message |-> Payload1]
    /\ fResult.payload = Payload1

(***************************************************************************)
(* Properties of a storeREEData run that a prisma call fails (SpecStoreC)  *)
(***************************************************************************)
\* The operations of a run that come before the one issuing call number k.
RECURSIVE C22_OpsBefore(_, _)
C22_OpsBefore(ops, k) ==
    IF ops = <<>> \/ OpCalls(Head(ops)) >= k THEN <<>>
    ELSE <<Head(ops)>> \o C22_OpsBefore(Tail(ops), k - OpCalls(Head(ops)))

\* The natural keys of the value rows of a table.
C22_ValueKeys(rows) == {<<r.sourceId, r.datetime>> : r \in rows}

C23_CategoryOf(ops, i) == Cardinality({j \in 1..i : ops[j].kind = "category"})

\* C23: the first prisma call of a run is the balance upsert, and when the
\* run issues a call for a category every call it issued before for the
\* balance or for an earlier category has ended; no call for an earlier
\* category is issued afterwards.
C23_CategoriesInSequence ==
    \A x \in Runners :
        LET L == txs[x].log
            ops == StoreOps(txs[x].payload)
        IN  /\ L # <<>> => (L[1] = <<"issue", 1, 1>> /\ ops[1].kind = "balance")
            /\ \A n \in DOMAIN L : \A m \in 1..(n - 1) :
                  (L[n][1] = "issue" /\ L[m][1] = "issue") =>
                     /\ C23_CategoryOf(ops, L[m][2]) <= C23_CategoryOf(ops, L[n][2])
                     /\ C23_CategoryOf(ops, L[m][2]) < C23_CategoryOf(ops, L[n][2]) =>
                           \E q \in (m + 1)..(n - 1) : L[q] = <<"end", L[m][2], L[m][3]>>

\* C23 witness: a run of the payload of two categories has ended; it issued
\* the upsert of its second category after both value upserts of the first
\* had ended.
C23_Witness ==
    \E x \in Runners :
        LET L == txs[x].log
        IN  /\ txs[x].pc = "done"
            /\ Len(StoreOps(txs[x].payload)) = 5
            /\ \E n \in DOMAIN L :
                  /\ L[n] = <<"issue", 5, 1>>
                  /\ \E q1, q2 \in 1..(n - 1) : L[q1] = <<"end", 4, 1>> /\ L[q2] = <<"end", 4, 2>>

\* Both runs have ended and none of their upserts is in flight.
C24_BothEnded ==
    \A x \in Runners : txs[x].pc \in {"done", "failed"} /\ txs[x].pending = {}

\* The natural keys a database holds, per table.
C24_NaturalKeys(db) ==
    [balances |-> {<<r.balanceId, r.balanceDate>> : r \in db.balances},
     categories |-> {r.categoryId : r \in db.categories},
     sources |-> {r.sourceId : r \in db.sources},
     values |-> {<<{x.sourceId : x \in {y \in db.sources : y.id = r.sourceId}}, r.datetime>> :
                    r \in db.values}]

\* No two rows of a table hold the same natural key.
C24_NoDuplicates ==
    /\ \A r, q \in balances :
          (r.balanceId = q.balanceId /\ r.balanceDate = q.balanceDate) => r = q
    /\ \A r, q \in categories : r.categoryId = q.categoryId => r = q
    /\ \A r, q \in sources : r.sourceId = q.sourceId => r = q
    /\ \A r, q \in values : (r.sourceId = q.sourceId /\ r.datetime = q.datetime) => r = q

\* Every row holds the fields of the last upsert that ended for its key.
C24_LastWriteWins ==
    /\ \A r \in balances : \E e \in written.balances :
          e.key = <<r.balanceId, r.balanceDate>> /\ r.title = e.frag.title
    /\ \A r \in categories : \E e \in written.categories :
          e.key = <<r.categoryId>> /\ r.title = e.frag.title /\ r.type = e.frag.type
    /\ \A r \in sources : \E e \in written.sources :
          e.key = <<r.sourceId>> /\ r.title = e.frag.title /\ r.groupId = e.frag.groupId
    /\ \A r \in values : \E e \in written.values :
          /\ e.key = <<r.sourceId, r.datetime>>
          /\ r.value = e.frag.value[1]
          /\ r.percentage = e.frag.percentage[1]

\* The tables after the two payloads are stored one run after the other.
C24_OneAfterTheOther(p, q) ==
    LET st == RunOps(RunState(EmptyDB), StoreOps(p), RaceDate, 0, {}, <<1, 2>>)
    IN  RunOps(RunState(st.db), StoreOps(q), RaceDate, 0, {}, <<1, 2>>).db

\* C24: once two overlapping runs for the same date have ended, no two rows
\* hold the same natural key, every row holds the fields of the last upsert
\* to its key, and the natural keys stored are those stored when the runs
\* do not overlap: the outcomes differ only in last-written fields.
C24_OverlapConverges ==
    C24_BothEnded =>
        /\ C24_NoDuplicates
        /\ C24_LastWriteWins
        /\ C24_NaturalKeys(DB) =
              C24_NaturalKeys(C24_OneAfterTheOther(txs["scheduled"].payload, txs["manual"].payload))

\* The values a payload lists for source s1 under a timestamp.
C25_Listed(p, dt) ==
    {ValueAt(p, pos).value[1] :
        pos \in {q \in ValuePositions(p) :
                    /\ p.included[q[1]].content[q[2]].id = "s1"
                    /\ ValueAt(p, q).datetime = dt}}

\* The value upserts of a run's Promise.all have all ended or thrown.
C25_BatchEnded(tx) ==
    /\ tx.pc \in {"done", "failed"}
    /\ tx.pending = {}
    /\ \E n \in DOMAIN tx.log : tx.log[n][1] = "issue" /\ tx.log[n][2] = 4

\* C25: in every state, the states between the commands of upserts in
\* flight included, at most one value row exists per source and timestamp;
\* and once the value upserts of a run whose payload lists a timestamp twice
\* for a source have ended, one row holds that timestamp, with one of the
\* values listed for it.
C25_OneValuePerSourceAndTime ==
    /\ \A r, q \in values : (r.sourceId = q.sourceId /\ r.datetime = q.datetime) => r = q
    /\ \A x \in Runners :
          (C25_BatchEnded(txs[x]) /\ Cardinality(C25_Listed(txs[x].payload, "t1")) = 2) =>
             /\ Cardinality({r \in values : r.datetime = "t1"}) = 1
             /\ \A r \in values :
                   r.datetime = "t1" =>
                      r.value \in UNION {C25_Listed(txs[y].payload, "t1") : y \in Runners}

\* C25 witness: alone, a run whose payload lists t1 twice has ended with a
\* DatabaseError: the create of one of its two upserts was refused, and one
\* row holds t1 with a listed value.
C25_Witness ==
    \E x \in Runners :
        /\ txs[x].pc = "failed"
        /\ txs[x].pending = {}
        /\ \A y \in Runners \ {x} : txs[y].pc = "idle"
        /\ C25_Listed(txs[x].payload, "t1") = {10, 20}
        /\ \E k \in 1..2 : \E n \in DOMAIN txs[x].log : txs[x].log[n] = <<"throw", 4, k>>
        /\ \E r \in values : values = {r} /\ r.datetime = "t1" /\ r.value \in {10, 20}

(***************************************************************************)
(* Properties of stop() and of the job bodies in progress                  *)
(* (SpecSched; two bodies together: SpecOverlap)                           *)
(***************************************************************************)
\* C26: a stop() changes no job body, in progress or ended; a task fires
\* only while the scheduler is running, and no task is left started once it
\* is stopped; the steps of a body do not look at isRunning, so a body in
\* progress at the stop() goes on to its store and to its end.
C26_StopCancelsNoBody ==
    [][/\ lastCall' = "stop" => runs' = runs
       /\ lastCall' = "cron" => (isRunning /\ cronTasks # {})
       /\ ~isRunning' => cronTasks' = {}
       /\ lastCall' = "run" => (isRunning' = isRunning /\ cronTasks' = cronTasks)]_vars

\* C26 witness: the scheduler is stopped and the last step was the store of
\* a current-day body that a task had started (so before the stop()): the
\* body has ended without an error.
C26_Witness ==
    /\ ~isRunning
    /\ lastCall = "run"
    /\ \E s \in DOMAIN runs :
          /\ runs[s].origin = "cron" /\ runs[s].job = "current"
          /\ runs[s].pc = "done" /\ runs[s].storeCalled /\ runs[s].error = NULL
          /\ \A q \in DOMAIN runs \ {s} : runs[q].pc = "idle"

\* The body of slot s was entered by a firing of a task and has not ended.
C27_InProgress(s) == runs[s].origin = "cron" /\ runs[s].pc \notin {"idle", "done"}

\* C27: at most one body entered by the firings of one task is in progress
\* at any time.
C27_OneBodyPerTask ==
    \A s, q \in DOMAIN runs :
        (C27_InProgress(s) /\ C27_InProgress(q)
            /\ runs[s].job = runs[q].job /\ runs[s].gen = runs[q].gen) => s = q

\* C29: a body whose fetchDateData threw for a date makes no storage call
\* for that date: it is not at its storeREEData call and has not made it.
C29_FailedFetchStoresNothing ==
    \A s \in DOMAIN runs :
        runs[s].fetchFailed => (runs[s].pc # "store" /\ ~runs[s].storeCalled)

\* C29 witness: the current-day body a task started has ended after its
\* fetch failed, without a call of storeREEData.
C29_Witness ==
    \E s \in DOMAIN runs :
        /\ runs[s].origin = "cron" /\ runs[s].job = "current"
        /\ runs[s].pc = "done"
        /\ runs[s].fetchFailed /\ runs[s].error = "REEApiError"
        /\ ~runs[s].storeCalled

(***************************************************************************)
(* Properties of what removes rows (SpecPurge)                             *)
(***************************************************************************)
\* The four tables after a step.
C28_After ==
    [balances |-> balances', categories |-> categories',
     sources |-> sources', values |-> values']

\* C28: a step that is not a call of cleanupOldData removes no natural key
\* from any of the four tables: between two cleanups the keys stored only
\* grow.
C28_OnlyCleanupDeletes ==
    [][(last'.op = "cleanup" /\ last' # last)
       \/ \A tab \in {"balances", "categories", "sources", "values"} :
             C24_NaturalKeys(DB)[tab] \subseteq C24_NaturalKeys(C28_After)[tab]]_vars

\* C28 witness: a storeREEData run found rows of all four tables and left
\* as many: it rewrote rows in place.
C28_Witness ==
    /\ last.op = "store"
    /\ last.ok
    /\ last.before.counts = Counts(DB)
    /\ \A k \in 1..4 : Counts(DB)[k] > 0

(***************************************************************************)
(* Properties of the fragments stored as categories (SpecStoreF)           *)
(***************************************************************************)
\* The fragment has one of the four category types, an id, a title, a
\* last-update and a content array.
C30_Qualifies(f) ==
    /\ f.type \in {"Renovable", "No-Renovable", "Almacenamiento", "Demanda"}
    /\ f.id # NULL
    /\ f.title # NULL
    /\ f.lastUpdate # NULL
    /\ f.hasContent

\* C30: a storeREEData run fails only when a prisma call fails, whatever
\* its fragments lack; and after a run that did not fail a category row
\* holds the id, type and title of a fragment of the payload exactly when the
\* fragment qualifies, the others being skipped.
C30_CategoryIffQualifies ==
    [][last'.op = "store" =>
         /\ ~last'.ok => last'.error.cause = PrismaError.message
         /\ last'.ok =>
               \A k \in DOMAIN last'.payload.included :
                   LET f == last'.payload.included[k]
                   IN  C30_Qualifies(f) <=>
                          \E r \in categories' :
                              r.categoryId = f.id /\ r.type = f.type /\ r.title = f.title]_vars

\* C30 witness: a run whose payload holds a fragment without content array
\* and then a category has ended without error: the category is stored, the
\* fragment is not.
C30_Witness ==
    /\ last.op = "store"
    /\ last.ok
    /\ Len(last.payload.included) = 2
    /\ ~last.payload.included[1].hasContent
    /\ last.payload.included[2].id = "c2"
    /\ \E r \in categories : r.categoryId = "c2"
    /\ ~\E r \in categories : r.categoryId = "x5"

(***************************************************************************)
(* Properties of the values stored under a source (SpecStoreW)             *)
(***************************************************************************)
\* The value has a timestamp, a number as value and a number as percentage.
C31_Kept(v) == v.datetime # NULL /\ v.value # <<>> /\ v.percentage # <<>>

\* C31: after a storeREEData run that did not fail, the source of the payload
\* is stored whatever its values are, each value it lists with a timestamp,
\* a value and a percentage (0 included) is stored under its timestamp with
\* these numbers, and no row holds the timestamp of a value that lacks one of
\* the three; a run fails only when a prisma call fails.
C31_ValuesFilteredOneByOne ==
    [][last'.op = "store" =>
         /\ ~last'.ok => last'.error.cause = PrismaError.message
         /\ last'.ok =>
               LET vl == last'.payload.included[1].content[1].values
               IN  /\ \E x \in sources' : x.sourceId = "s1"
                   /\ \A k \in DOMAIN vl :
                         IF C31_Kept(vl[k])
                            THEN \E r \in values' :
                                    /\ r.datetime = vl[k].datetime
                                    /\ r.value = vl[k].value[1]
                                    /\ r.percentage = vl[k].percentage[1]
                                    /\ \E x \in sources' : x.sourceId = "s1" /\ r.sourceId = x.id
                            ELSE ~\E r \in values' : r.datetime = vl[k].datetime]_vars

\* C31 witness: a run whose source lists a value without percentage and the
\* value 0 at t2 has ended without error: the source and t2 are stored, with
\* 0, and no other value.
C31_Witness ==
    /\ last.op = "store"
    /\ last.ok
    /\ last.payload.included[1].content[1].values =
          <<Val("t4", Some(1), None), Val("t2", Some(0), Some(0))>>
    /\ \E x \in sources : x.sourceId = "s1"
    /\ \E r \in values : values = {r} /\ r.datetime = "t2" /\ r.value = 0 /\ r.percentage = 0

(***************************************************************************)
(* Properties of manualFetch (SpecSched)                                   *)
(***************************************************************************)
\* C32: manualFetch can be called whether the scheduler is running or not
\* (a slot of the model being free), and neither the call nor a step of a
\* job body changes isRunning, the registered jobs or the started tasks.
C32_ManualFetchLeavesScheduler ==
    [][/\ FreeSlots # {} => ENABLED manualFetch
       /\ lastCall' \in {"manualFetch", "run"} =>
             /\ isRunning' = isRunning
             /\ jobs' = jobs
             /\ cronTasks' = cronTasks]_vars

\* C32 witness: on a scheduler never started, a manual run has ended after
\* its fetch failed; the scheduler is stopped, without jobs.
C32_Witness ==
    /\ jobGen = 0 /\ ~isRunning /\ jobs = <<>>
    /\ lastCall = "run"
    /\ \E s \in DOMAIN runs :
          /\ runs[s].origin = "manual" /\ runs[s].pc = "done"
          /\ runs[s].error = "REEApiError"

(***************************************************************************)
(* Properties of a payload without last-update (SpecStoreB)                *)
(***************************************************************************)
\* C36: a payload whose data has an id and a title but no last-update makes
\* storeREEData fail with a DatabaseError whose cause is the error of the
\* balance check, before any prisma call: the four tables stay as they were.
C36_NoLastUpdateRejected ==
    [][(/\ last'.op = "store"
        /\ last' # last
        /\ last'.payload.id # NULL /\ last'.payload.title # NULL
        /\ last'.payload.lastUpdate = NULL) =>
          /\ ~last'.ok
          /\ last'.error.name = "DatabaseError"
          /\ last'.error.cause = "Invalid API response: missing required balance data"
          /\ last'.calls = 0
          /\ <<balances', categories', sources', values'>> =
                <<balances, categories, sources, values>>]_vars

\* C36 witness: a payload with id, title and a category but no last-update
\* has been rejected over tables that hold a balance.
C36_Witness ==
    /\ last.op = "store"
    /\ ~last.ok
    /\ last.payload.id = "bal1" /\ last.payload.title = "T"
    /\ last.payload.lastUpdate = NULL
    /\ last.payload.included # <<>>
    /\ last.calls = 0
    /\ last.error.cause = "Invalid API response: missing required balance data"
    /\ balances # {}
    /\ categories = {}

(***************************************************************************)
(* Properties of what a cleanup leaves of the balances it keeps            *)
(* (SpecRelink)                                                            *)
(***************************************************************************)
\* C35: after a cleanupOldData call, every category, source and value that
\* a run of a balance the cleanup kept has upserted is still stored.
C35_RetainedBalanceKeepsData ==
    [][(last'.op = "cleanup" /\ last'.ok) =>
         \A e \in upserted :
             (\E b \in balances' : e[1] = <<b.balanceId, b.balanceDate>>) =>
                CASE e[2] = "categories" -> \E c \in categories' : <<c.categoryId>> = e[3]
                  [] e[2] = "sources" -> \E x \in sources' : <<x.sourceId>> = e[3]
                  [] OTHER ->
                       \E v \in values', x \in sources' :
                           v.sourceId = x.id /\ <<x.sourceId, v.datetime>> = e[3]]_vars

(***************************************************************************)
(* Properties of the stored references while runs and cleanups interleave  *)
(* (SpecRacePurge)                                                         *)
(***************************************************************************)
\* C33: in every state that runs and cleanups reach in any interleaving,
\* every stored category references a stored balance, every stored source a
\* stored category and every stored value a stored source.
C33_ReferentialIntegrity ==
    /\ \A c \in categories : \E b \in balances : b.id = c.balanceId
    /\ \A x \in sources : \E c \in categories : c.id = x.categoryId
    /\ \A v \in values : \E x \in sources : x.id = v.sourceId

(***************************************************************************)
(* Properties of the links of categories stored by runs of two dates       *)
(* (SpecRaceDates)                                                         *)
(***************************************************************************)
\* C34: when two runs for different dates with the same categories were in
\* progress together and both have ended without error, all of those
\* categories are linked to the same balance.
C34_SameBalanceLinks ==
    (/\ \A x \in Runners : txs[x].pc = "done"
     /\ startOfDay(txs["scheduled"].date) # startOfDay(txs["manual"].date))
    => \A c, d \in categories : c.balanceId = d.balanceId

====
